---- MODULE Spec2Model ----
(***************************************************************************)
(* Model of the ralph-orchestrator core: the event bus (ralph-proto), the  *)
(* event parser (ralph-core) and the orchestration loop (ralph-cli).       *)
(*                                                                         *)
(* An Option<T> is the empty sequence (None) or a one-element sequence     *)
(* (Some).  Identifiers and topics are strings; Split gives a topic's      *)
(* dot-separated segments.  Text that the code searches (agent output,     *)
(* payloads) is a sequence of tokens, and a byte offset is a token index.  *)
(***************************************************************************)
EXTENDS Naturals, Sequences, FiniteSets, TLC

VARIABLES
    hats,       \* EventBus.hats: HashMap<HatId, Hat>
    pending,    \* EventBus.pending: HashMap<HatId, Vec<Event>>
    last,       \* the last bus call: its name, arguments and return value
    delivered,  \* history: per hat id, every event appended to its queue
    taken,      \* history: per hat id, the results of take_pending, concatenated
    npub        \* history: number of publish calls made

VARIABLES
    cfg,                   \* RalphConfig (event_loop section and mode)
    iteration,             \* LoopState.iteration
    consecutive_failures,  \* LoopState.consecutive_failures
    cumulative_cost,       \* LoopState.cumulative_cost
    stopped,               \* LoopState.stopped
    elapsed,               \* now - LoopState.started_at, in seconds
    pc,                    \* position of run_loop
    hat_id,                \* run_loop's local hat_id (Option)
    result,                \* run_loop's local result (Option<ExecutionResult>)
    outcome,               \* how run_loop ended: "running", "terminated", "no_pending", "error"
    report,                \* what print_termination printed (Option)
    execs,                 \* history: number of executor.execute calls
    stop_in_flight,        \* history: the stop flag was set during an executor call
    failed_since_success   \* history: failed executions since the last successful one

VARIABLES
    sub_hat,     \* the Hat is_subscribed is called on
    sub_topic,   \* the topic it is asked about
    sub_answer   \* what is_subscribed returned (Option)

VARIABLES
    parser_source,  \* EventParser.source (Option<HatId>)
    parser_output,  \* the output handed to EventParser::parse
    parser_events,  \* what parse returned (Option<Vec<Event>>)
    parser_pieces   \* history: the pieces the output was written as

VARIABLES
    log,          \* the file at EventReader.path: None while it does not exist, else Some(bytes)
    unwritten,    \* the bytes of the line being appended that are not in the file yet
    position,     \* EventReader.position
    read_result,  \* what the last read_new_events returned (None before the first call)
    written,      \* history: number of lines the writer has begun
    returned,     \* history: the events of all Ok results, concatenated
    quiet,        \* history: nothing happened to file or reader since the last Ok result
    shrunk,       \* history: the file was truncated or deleted
    resets,       \* history: number of reset calls
    partial_seen, \* history: a call returned Ok while the last line had no LF yet
    missing_seen, \* history: a call found no file
    err_seen      \* history: a call returned Err

VARIABLES
    scan_source,    \* EventParser.source of the parser whose loop is followed
    scan_output,    \* the output given to parse
    scan_remaining, \* parse: remaining
    scan_events,    \* parse: events
    scan_pc         \* parse: "idle", "loop" (at the head of the while loop), "returned" or "panicked"

VARIABLES
    hat_topology,      \* HatlessRalph.hat_topology: None or Some(hats)
    starting_event,    \* HatlessRalph.starting_event
    scratchpad_exists, \* whether the file at core.scratchpad exists
    prompt_context,    \* the context of the last build_prompt call
    prompt,            \* what the last build_prompt call returned (None before the first)
    built              \* history: for each build_prompt call, whether the scratchpad existed and the prompt

busVars == <<hats, pending, last, delivered, taken, npub>>

busHistory == <<last, delivered, taken, npub>>

loopVars == <<cfg, iteration, consecutive_failures, cumulative_cost, stopped, elapsed,
              pc, hat_id, result, outcome, report, execs, stop_in_flight,
              failed_since_success>>

matchVars == <<sub_hat, sub_topic, sub_answer>>

parserVars == <<parser_source, parser_output, parser_events, parser_pieces>>

readerVars == <<log, unwritten, position, read_result, written, returned, quiet, shrunk,
                resets, partial_seen, missing_seen, err_seen>>

scanVars == <<scan_source, scan_output, scan_remaining, scan_events, scan_pc>>

ralphVars == <<hat_topology, starting_event, scratchpad_exists, prompt_context, prompt, built>>

libVars == <<matchVars, parserVars, readerVars, scanVars, ralphVars>>

vars == <<busVars, loopVars, libVars>>

----------------------------------------------------------------------------
(* Bounds *)

\* publish calls in one behaviour of the bus specification
MaxPublish == 2

\* largest max_iterations among the configurations of the loop specification
MaxIter == 3

\* subscribe(..) calls made on the hat is_subscribed is asked about
MaxSubs == 2

\* pieces (tags, broken tags, text) an output handed to parse is made of
MaxPieces == 3

\* lines the writer appends to the event log
MaxLines == 3

----------------------------------------------------------------------------
(* Option, topics, hats, events *)

None == <<>>

Some(x) == <<x>>

Star == "*"

TaskStar == "task.*"

ImplStar == "impl.*"

TaskStart == "task.start"

ImplDone == "impl.done"

Handoff == "handoff"

\* str::split('.') on the strings of the model
Split(s) ==
    CASE s = "task.*" -> <<"task", "*">>
      [] s = "impl.*" -> <<"impl", "*">>
      [] s = "task.start" -> <<"task", "start">>
      [] s = "impl.done" -> <<"impl", "done">>
      [] s = "review.done" -> <<"review", "done">>
      [] s = "*.done" -> <<"*", "done">>
      [] s = "impl.done.ok" -> <<"impl", "done", "ok">>
      [] OTHER -> <<s>>

\* Topic::matches: "*" alone matches anything; otherwise the segments are
\* compared pairwise, a "*" segment matching exactly one segment.
Matches(pattern, topic) ==
    \/ pattern = "*"
    \/ pattern = topic
    \/ LET ps == Split(pattern)
           ts == Split(topic)
       IN  /\ Len(ps) = Len(ts)
           /\ \A i \in 1..Len(ps) : ps[i] = "*" \/ ps[i] = ts[i]

\* Hat::new(id, name) followed by subscribe(..) calls
Hat(id, subs) == [id |-> id, subscriptions |-> subs]

\* Hat::is_subscribed
IsSubscribedAll(hat, topic) ==
    \A i \in 1..Len(hat.subscriptions) : Matches(hat.subscriptions[i], topic)

IsSubscribed(hat, topic) ==
    \E i \in 1..Len(hat.subscriptions) : Matches(hat.subscriptions[i], topic)

\* Event::new(topic, payload) with_source / with_target
Event(topic, payload, source, target) ==
    [topic |-> topic, payload |-> payload, source |-> source, target |-> target]

HatIds == {"ralph", "impl", "reviewer"}

----------------------------------------------------------------------------
(* EventBus *)

\* The orders in which a HashMap holding the keys S may be iterated.
IterOrders(S) ==
    {o \in [1..Cardinality(S) -> S] : \A i, j \in 1..Cardinality(S) : o[i] = o[j] => i = j}

\* self.pending.entry(id).or_default().push(event)
PushFront(pd, id, e) ==
    [k \in DOMAIN pd \cup {id} |-> IF k = id
                                    THEN <<e>> \o (IF id \in DOMAIN pd THEN pd[id] ELSE <<>>)
                                    ELSE pd[k]]

PushToEntry(pd, id, e) ==
    [k \in DOMAIN pd |-> IF k = id THEN Append(pd[id], e) ELSE pd[k]]

Push(pd, id, e) ==
    [k \in DOMAIN pd \cup {id} |-> IF k = id
                                    THEN Append(IF id \in DOMAIN pd THEN pd[id] ELSE <<>>, e)
                                    ELSE pd[k]]

\* EventBus::register
RegisterPendingReset(pd, hat) == [k \in DOMAIN pd \cup {hat.id} |-> IF k = hat.id THEN <<>> ELSE pd[k]]

RegisterHats(hs, hat) == [k \in DOMAIN hs \cup {hat.id} |-> IF k = hat.id THEN hat ELSE hs[k]]

RegisterPending(pd, hat) == [k \in DOMAIN pd \cup {hat.id} |-> IF k \in DOMAIN pd THEN pd[k] ELSE <<>>]

\* EventBus::publish, the direct-target branch
PublishDirectUnchecked(hs, pd, e) ==
    [pending |-> Push(pd, e.target[1], e), recipients |-> <<e.target[1]>>]

PublishDirect(hs, pd, e) ==
    LET target == e.target[1]
    IN  IF target \in DOMAIN hs
        THEN [pending |-> Push(pd, target, e), recipients |-> <<target>>]
        ELSE [pending |-> pd, recipients |-> <<>>]

\* EventBus::publish, the loop over self.hats from position i of the
\* iteration order on
RECURSIVE PublishRouteToSource(_, _, _, _, _)
PublishRouteToSource(hs, pd, e, order, i) ==
    IF i > Len(order)
    THEN [pending |-> pd, recipients |-> <<>>]
    ELSE LET id == order[i]
         IN  IF IsSubscribed(hs[id], e.topic)
             THEN LET r == PublishRouteToSource(hs, Push(pd, id, e), e, order, i + 1)
                  IN  [pending |-> r.pending, recipients |-> <<id>> \o r.recipients]
             ELSE PublishRouteToSource(hs, pd, e, order, i + 1)

RECURSIVE PublishRouteFirstMatch(_, _, _, _, _)
PublishRouteFirstMatch(hs, pd, e, order, i) ==
    IF i > Len(order)
    THEN [pending |-> pd, recipients |-> <<>>]
    ELSE LET id == order[i]
         IN  IF e.source = Some(id)
             THEN PublishRouteFirstMatch(hs, pd, e, order, i + 1)
             ELSE IF IsSubscribed(hs[id], e.topic)
                  THEN [pending |-> Push(pd, id, e), recipients |-> <<id>>]
                  ELSE PublishRouteFirstMatch(hs, pd, e, order, i + 1)

RECURSIVE PublishRoute(_, _, _, _, _)
PublishRoute(hs, pd, e, order, i) ==
    IF i > Len(order)
    THEN [pending |-> pd, recipients |-> <<>>]
    ELSE LET id == order[i]
         IN  IF e.source = Some(id)
             THEN PublishRoute(hs, pd, e, order, i + 1)
             ELSE IF IsSubscribed(hs[id], e.topic)
                  THEN LET r == PublishRoute(hs, Push(pd, id, e), e, order, i + 1)
                       IN  [pending |-> r.pending, recipients |-> <<id>> \o r.recipients]
                  ELSE PublishRoute(hs, pd, e, order, i + 1)

\* EventBus::publish: the queues after the call and the returned list
PublishTargetAndSubscribers(hs, pd, e, order) ==
    IF e.target # None
    THEN LET d == PublishDirect(hs, pd, e)
             r == PublishRoute(hs, d.pending, e, order, 1)
         IN  [pending |-> r.pending, recipients |-> d.recipients \o r.recipients]
    ELSE PublishRoute(hs, pd, e, order, 1)

Publish(hs, pd, e, order) ==
    IF e.target # None
    THEN PublishDirect(hs, pd, e)
    ELSE PublishRoute(hs, pd, e, order, 1)

\* EventBus::take_pending: the returned events
TakePendingResult(pd, id) == IF id \in DOMAIN pd THEN pd[id] ELSE <<>>

\* EventBus::take_pending: the queues after the call
TakePendingKeep(pd, id) == pd

TakePendingRest(pd, id) == [k \in DOMAIN pd \ {id} |-> pd[k]]

\* EventBus::has_pending
HasPending(pd) == \E k \in DOMAIN pd : pd[k] # <<>>

\* EventBus::next_hat_with_pending: the ids the iteration of the map may
\* find first
NextHatWithPendingAnyEntry(pd) == DOMAIN pd

NextHatWithPending(pd) == {k \in DOMAIN pd : pd[k] # <<>>}

----------------------------------------------------------------------------
(* EventParser *)

Tok(k, v) == [k |-> k, v |-> v]

\* the text `<event `
Open == Tok("<event ", "")

\* the character `>`
Gt == Tok(">", "")

\* the text `</event>`
Close == Tok("</event>", "")

\* the character `"`
Quote == Tok("quote", "")

\* the text name="
AttrOpen(name) == Tok("attr=", name)

\* a run of characters holding none of the texts above and no white space
Chars(text) == Tok("chars", text)

\* white space
Ws == Tok(" ", "")

\* The element of a one-element set; The({e(x) : x \in {v}}) is e(v) with v
\* evaluated once
The(S) == CHOOSE x \in S : TRUE

\* str::find: the position of the first occurrence of token t in text, 0 if
\* none
Find(text, t) ==
    The({IF \E i \in 1..Len(s) : s[i] = t
         THEN CHOOSE i \in 1..Len(s) : s[i] = t /\ \A j \in 1..(i - 1) : s[j] # t
         ELSE 0 : s \in {text}})

\* The string a token sequence spells (attribute values of the model are one
\* run of characters, or empty)
Str(s) == IF s = <<>> THEN "" ELSE s[1].v

\* str::trim
RECURSIVE TrimStart(_)
TrimStart(text) ==
    The({IF s = <<>> THEN s
         ELSE IF Head(s) = Ws THEN TrimStart(Tail(s))
         ELSE s : s \in {text}})

RECURSIVE Trim(_)
Trim(text) ==
    The({IF s = <<>> THEN s
         ELSE IF Head(s) = Ws THEN Trim(Tail(s))
         ELSE IF s[Len(s)] = Ws THEN Trim(SubSeq(s, 1, Len(s) - 1))
         ELSE s : s \in {text}})

\* EventParser::extract_attr
ExtractAttrTopicOnly(opening_tag, attr) ==
    The({LET start == Find(tag, AttrOpen("topic"))
             rest == SubSeq(tag, start + 1, Len(tag))
             end == Find(rest, Quote)
         IN  IF attr # "topic" THEN None
             ELSE IF start = 0 THEN None
             ELSE IF end = 0 THEN None
             ELSE Some(Str(SubSeq(rest, 1, end - 1))) : tag \in {opening_tag}})

ExtractAttr(opening_tag, attr) ==
    The({LET start == Find(tag, AttrOpen(attr))
             rest == SubSeq(tag, start + 1, Len(tag))
             end == Find(rest, Quote)
         IN  IF start = 0 THEN None
             ELSE IF end = 0 THEN None
             ELSE Some(Str(SubSeq(rest, 1, end - 1))) : tag \in {opening_tag}})

\* EventParser::parse, for a parser whose source is `source`
RECURSIVE Parse(_, _)
ParseFirstOnly(source, output) ==
    The({LET start_idx == Find(remaining, Open)
             after_start == SubSeq(remaining, start_idx, Len(remaining))
             tag_end == Find(after_start, Gt)
             opening_tag == SubSeq(after_start, 1, tag_end)
             topic == ExtractAttr(opening_tag, "topic")
             target == ExtractAttr(opening_tag, "target")
             content_start == SubSeq(after_start, tag_end + 1, Len(after_start))
             close_idx == Find(content_start, Close)
             payload == Trim(SubSeq(content_start, 1, close_idx - 1))
         IN  IF start_idx = 0 THEN <<>>
             ELSE IF tag_end = 0
                  THEN Parse(source, SubSeq(remaining, start_idx + 1, Len(remaining)))
             ELSE IF topic = None
                  THEN Parse(source, SubSeq(remaining, start_idx + tag_end, Len(remaining)))
             ELSE IF close_idx = 0
                  THEN Parse(source, SubSeq(remaining, start_idx + tag_end, Len(remaining)))
             ELSE <<Event(topic[1], payload, source, target)>>
         : remaining \in {output}})

ParseStopsAtNoTopic(source, output) ==
    The({LET start_idx == Find(remaining, Open)
             after_start == SubSeq(remaining, start_idx, Len(remaining))
             tag_end == Find(after_start, Gt)
             opening_tag == SubSeq(after_start, 1, tag_end)
             topic == ExtractAttr(opening_tag, "topic")
             target == ExtractAttr(opening_tag, "target")
             content_start == SubSeq(after_start, tag_end + 1, Len(after_start))
             close_idx == Find(content_start, Close)
             payload == Trim(SubSeq(content_start, 1, close_idx - 1))
         IN  IF start_idx = 0 THEN <<>>
             ELSE IF tag_end = 0
                  THEN Parse(source, SubSeq(remaining, start_idx + 1, Len(remaining)))
             ELSE IF topic = None
                  THEN <<>>
             ELSE IF close_idx = 0
                  THEN Parse(source, SubSeq(remaining, start_idx + tag_end, Len(remaining)))
             ELSE <<Event(topic[1], payload, source, target)>>
                  \o Parse(source, SubSeq(content_start, close_idx + 1, Len(content_start)))
         : remaining \in {output}})

Parse(source, output) ==
    The({LET start_idx == Find(remaining, Open)
             after_start == SubSeq(remaining, start_idx, Len(remaining))
             tag_end == Find(after_start, Gt)
             opening_tag == SubSeq(after_start, 1, tag_end)
             topic == ExtractAttr(opening_tag, "topic")
             target == ExtractAttr(opening_tag, "target")
             content_start == SubSeq(after_start, tag_end + 1, Len(after_start))
             close_idx == Find(content_start, Close)
             payload == Trim(SubSeq(content_start, 1, close_idx - 1))
         IN  IF start_idx = 0 THEN <<>>
             ELSE IF tag_end = 0
                  THEN Parse(source, SubSeq(remaining, start_idx + 1, Len(remaining)))
             ELSE IF topic = None
                  THEN Parse(source, SubSeq(remaining, start_idx + tag_end, Len(remaining)))
             ELSE IF close_idx = 0
                  THEN Parse(source, SubSeq(remaining, start_idx + tag_end, Len(remaining)))
             ELSE <<Event(topic[1], payload, source, target)>>
                  \o Parse(source, SubSeq(content_start, close_idx + 1, Len(content_start)))
         : remaining \in {output}})

\* EventParser::contains_promise
ContainsPromiseNever(output, promise) == FALSE

ContainsPromise(output, promise) == \E i \in 1..Len(output) : output[i] = Chars(promise)

\* The tag <event topic="T"[ target="H"]>payload</event>
RenderTag(topic, target, payload) ==
    <<Open, AttrOpen("topic"), Chars(topic), Quote>>
    \o (IF target = None THEN <<>> ELSE <<Ws, AttrOpen("target"), Chars(target[1]), Quote>>)
    \o <<Gt>> \o payload \o <<Close>>

----------------------------------------------------------------------------
(* The bus driven by arbitrary calls *)

Payloads == {<<[k |-> "chars", v |-> "a"]>>}

BusHats ==
    {Hat("ralph", <<Star>>), Hat("impl", <<TaskStar>>),
     Hat("reviewer", <<ImplStar>>), Hat("reviewer", <<Star>>)}

BusEvents ==
    {Event(t, p, s, g) : t \in {TaskStart, ImplDone}, p \in Payloads,
                         s \in {None, Some("reviewer")}, g \in {None, Some("reviewer")}}

\* The loop variables while only the bus is exercised
LoopIdle ==
    /\ cfg = <<>>
    /\ iteration = 0
    /\ consecutive_failures = 0
    /\ cumulative_cost = 0
    /\ stopped = FALSE
    /\ elapsed = 0
    /\ pc = "idle"
    /\ hat_id = None
    /\ result = None
    /\ outcome = "running"
    /\ report = None
    /\ execs = 0
    /\ stop_in_flight = FALSE
    /\ failed_since_success = 0

\* No hat is being asked about a topic
MatchIdle ==
    /\ sub_hat = <<>>
    /\ sub_topic = ""
    /\ sub_answer = None

\* No parser is at work
ParserIdle ==
    /\ parser_source = None
    /\ parser_output = <<>>
    /\ parser_events = None
    /\ parser_pieces = <<>>

\* No reader is at work
ReaderIdle ==
    /\ log = None
    /\ unwritten = <<>>
    /\ position = 0
    /\ read_result = None
    /\ written = 0
    /\ returned = <<>>
    /\ quiet = FALSE
    /\ shrunk = FALSE
    /\ resets = 0
    /\ partial_seen = FALSE
    /\ missing_seen = FALSE
    /\ err_seen = FALSE

\* No parse call is being followed
ScanIdle ==
    /\ scan_source = None
    /\ scan_output = <<>>
    /\ scan_remaining = <<>>
    /\ scan_events = <<>>
    /\ scan_pc = "idle"

\* No coordinator has been made
RalphIdle ==
    /\ hat_topology = None
    /\ starting_event = None
    /\ scratchpad_exists = FALSE
    /\ prompt_context = <<>>
    /\ prompt = None
    /\ built = <<>>

NoCall == [op |-> "none", id |-> "", event |-> <<>>, recipients |-> <<>>, events |-> <<>>]

\* The bus before any call
BusIdle ==
    /\ hats = <<>>
    /\ pending = <<>>
    /\ last = NoCall
    /\ delivered = [h \in HatIds |-> <<>>]
    /\ taken = [h \in HatIds |-> <<>>]
    /\ npub = 0

BusInit ==
    /\ hats = <<>>
    /\ pending = <<>>
    /\ last = NoCall
    /\ delivered = [h \in HatIds |-> <<>>]
    /\ taken = [h \in HatIds |-> <<>>]
    /\ npub = 0
    /\ LoopIdle
    /\ MatchIdle
    /\ ParserIdle
    /\ ReaderIdle
    /\ ScanIdle
    /\ RalphIdle

Register(hat) ==
    /\ hats' = RegisterHats(hats, hat)
    /\ pending' = RegisterPending(pending, hat)
    /\ last' = [NoCall EXCEPT !.op = "register", !.id = hat.id]
    /\ UNCHANGED <<delivered, taken, npub, loopVars, libVars>>

PublishCall(e, order) ==
    /\ npub < MaxPublish
    /\ LET r == Publish(hats, pending, e, order)
       IN  /\ pending' = r.pending
           /\ last' = [NoCall EXCEPT !.op = "publish", !.event = Some(e),
                                      !.recipients = r.recipients]
           /\ delivered' = [h \in HatIds |->
                              IF \E i \in 1..Len(r.recipients) : r.recipients[i] = h
                              THEN Append(delivered[h], e)
                              ELSE delivered[h]]
    /\ npub' = npub + 1
    /\ UNCHANGED <<hats, taken, loopVars, libVars>>

TakePending(id) ==
    /\ pending' = TakePendingRest(pending, id)
    /\ last' = [NoCall EXCEPT !.op = "take_pending", !.id = id,
                              !.events = TakePendingResult(pending, id)]
    /\ taken' = [taken EXCEPT ![id] = @ \o TakePendingResult(pending, id)]
    /\ UNCHANGED <<hats, delivered, npub, loopVars, libVars>>

BusNext ==
    \/ \E hat \in BusHats : Register(hat)
    \/ \E e \in BusEvents, order \in IterOrders(DOMAIN hats) : PublishCall(e, order)
    \/ \E id \in HatIds : TakePending(id)

Spec == BusInit /\ [][BusNext]_vars

----------------------------------------------------------------------------
(* Claims about the bus *)

Range(s) == {s[i] : i \in 1..Len(s)}

\* The queue of hat h in the map pd (empty when h has no entry)
Queue(pd, h) == IF h \in DOMAIN pd THEN pd[h] ELSE <<>>

\* The routing condition of the specification for event e and hat record hat
ShouldReceive(e, hat) ==
    \/ e.target = Some(hat.id)
    \/ /\ e.target = None
       /\ e.source # Some(hat.id)
       /\ \E p \in Range(hat.subscriptions) : Matches(p, e.topic)

\* C1: publish(E) appends E to the queue of a registered hat H iff
\* E.target = H.id, or E.target is unset, E.source # H.id and a subscription
\* of H matches E.topic; the queues of the other hats are left as they were,
\* and the returned list holds exactly the ids of the hats that received E.
C1_PublishRouting ==
    [][last'.op = "publish" =>
         LET e == last'.event[1]
         IN  /\ \A h \in DOMAIN hats :
                   Queue(pending', h) = IF ShouldReceive(e, hats[h])
                                        THEN Append(Queue(pending, h), e)
                                        ELSE Queue(pending, h)
             /\ Range(last'.recipients) = {h \in DOMAIN hats : ShouldReceive(e, hats[h])}
             /\ Len(last'.recipients) = Cardinality(Range(last'.recipients))]_vars

\* C1 witness: a hat subscribing to "*" published an undirected event; another
\* hat received it and the publisher did not.
C1_Witness ==
    /\ last.op = "publish"
    /\ last.event[1].source = Some("reviewer")
    /\ last.event[1].target = None
    /\ "reviewer" \in DOMAIN hats
    /\ hats["reviewer"].subscriptions = <<Star>>
    /\ "ralph" \in Range(last.recipients)
    /\ "reviewer" \notin Range(last.recipients)
    /\ Queue(pending, "reviewer") = <<>>

\* C2: a directed publish to a registered hat T appends E to T's queue only
\* and returns [T], whatever the subscriptions and the source are; a directed
\* publish to an unregistered id returns [] and changes no queue.
C2_DirectedPublish ==
    [][(last'.op = "publish" /\ last'.event[1].target # None) =>
         LET e == last'.event[1]
             t == e.target[1]
         IN  IF t \in DOMAIN hats
             THEN /\ last'.recipients = <<t>>
                  /\ Queue(pending', t) = Append(Queue(pending, t), e)
                  /\ \A h \in (DOMAIN pending \cup DOMAIN pending') \ {t} :
                        /\ h \in DOMAIN pending /\ h \in DOMAIN pending'
                        /\ pending'[h] = pending[h]
             ELSE /\ last'.recipients = <<>>
                  /\ pending' = pending]_vars

\* C2 witness: an event directed to reviewer, published by reviewer itself on
\* a topic reviewer does not subscribe to and impl does, reached reviewer only.
C2_Witness ==
    /\ last.op = "publish"
    /\ last.event[1] = Event(TaskStart, <<[k |-> "chars", v |-> "a"]>>, Some("reviewer"), Some("reviewer"))
    /\ "impl" \in DOMAIN hats
    /\ "reviewer" \in DOMAIN hats
    /\ hats["reviewer"].subscriptions = <<ImplStar>>
    /\ last.recipients = <<"reviewer">>
    /\ Queue(pending, "impl") = <<>>
    /\ Queue(pending, "reviewer") = <<last.event[1]>>

\* C2 witness, second case: a directed event to an id that is not registered
\* was dropped while a subscriber of its topic was registered.
C2_WitnessDropped ==
    /\ last.op = "publish"
    /\ last.event[1].target = Some("reviewer")
    /\ "reviewer" \notin DOMAIN hats
    /\ "ralph" \in DOMAIN hats
    /\ last.recipients = <<>>

\* C3: take_pending(H) returns every event delivered to H and not yet taken,
\* in the order of delivery, leaves H without pending events and changes no
\* other queue; a second take_pending(H) right after it returns [].
C3_TakePending ==
    [][last'.op = "take_pending" =>
         LET h == last'.id
         IN  /\ last'.events = SubSeq(delivered[h], Len(taken[h]) + 1, Len(delivered[h]))
             /\ Queue(pending', h) = <<>>
             /\ \A k \in HatIds \ {h} : Queue(pending', k) = Queue(pending, k)
             /\ (last.op = "take_pending" /\ last.id = h) => last'.events = <<>>]_vars

\* C3 witness: two events were published for reviewer and one take_pending
\* returned both, in publish order.
C3_Witness ==
    /\ last.op = "take_pending"
    /\ last.id = "reviewer"
    /\ Len(last.events) = 2
    /\ last.events[1] # last.events[2]
    /\ last.events = delivered["reviewer"]
    /\ Queue(pending, "reviewer") = <<>>

\* C4: every event delivered to H is returned by exactly one take_pending(H):
\* at any time the events delivered to H are those already returned by
\* take_pending(H) followed by those still queued, each once and in order.
C4_ExactlyOnce ==
    \A h \in HatIds : delivered[h] = taken[h] \o Queue(pending, h)

\* C4 witness: one event was returned by an earlier take_pending, a register
\* call followed, and a later event waits in the queue.
C4_Witness ==
    /\ last.op = "register"
    /\ last.id = "reviewer"
    /\ Len(taken["reviewer"]) = 1
    /\ Len(Queue(pending, "reviewer")) = 1

\* C5: every hat id with a pending queue is registered, and one publish adds
\* at most one copy of the event to any queue.
C5_QueuesOfRegisteredHats ==
    [][/\ DOMAIN pending' \subseteq DOMAIN hats'
       /\ last'.op = "publish" =>
             \A h \in HatIds : Len(Queue(pending', h)) <= Len(Queue(pending, h)) + 1]_vars

\* C5 witness: an event was published to two subscribers at once after a
\* queue had been removed by take_pending.
C5_Witness ==
    /\ last.op = "publish"
    /\ Len(last.recipients) = 2
    /\ DOMAIN pending # DOMAIN hats
    /\ \A h \in Range(last.recipients) : Len(pending[h]) = 1

----------------------------------------------------------------------------
(* EventLoop and run_loop *)

\* EventLoopConfig::default().completion_promise
CompletionPromise == "LOOP_COMPLETE"

\* RalphConfig.hats: the ids of the hats a multi-mode configuration defines
\* (with or without a catch-all hat ralph); none in single mode
ConfiguredHats(mode) ==
    IF mode = "single" THEN {{}} ELSE {{"impl", "reviewer"}, {"ralph", "impl", "reviewer"}}

LoopConfigs ==
    UNION {[mode : {m},
            hats : ConfiguredHats(m),
            completion_promise : {CompletionPromise},
            max_iterations : 1..MaxIter,
            max_runtime_seconds : {2},
            max_cost_usd : {None, Some(2)},
            max_consecutive_failures : {1, 2},
            checkpoint_interval : {1, 2}] : m \in {"single", "multi"}}

\* The hats of a run: Hat::default_single() in single mode, the configured
\* hats in multi mode
LoopHats(c) ==
    IF c.mode = "single"
    THEN [h \in {"default"} |-> Hat("default", <<Star>>)]
    ELSE [h \in c.hats |->
            CASE h = "ralph" -> Hat("ralph", <<Star>>)
              [] h = "impl" -> Hat("impl", <<TaskStar>>)
              [] h = "reviewer" -> Hat("reviewer", <<ImplStar>>)]

\* Agent outputs
OutEmpty == <<>>

OutPromise == <<Chars("done"), Ws, Chars(CompletionPromise)>>

OutEvent == RenderTag(ImplDone, None, <<Chars("ok")>>)

OutTwoEvents ==
    RenderTag(ImplDone, None, <<Ws, Chars("go"), Ws>>)
    \o <<Ws>> \o RenderTag(Handoff, Some("reviewer"), <<Chars("look")>>)

OutEventPromise == OutEvent \o <<Ws, Chars(CompletionPromise)>>

Outputs == {OutEmpty, OutPromise, OutEvent, OutTwoEvents, OutEventPromise}

\* What executor.execute(..).await yields: Err, or Ok(ExecutionResult); tick
\* is the wall time the call took, cost what it added to the bill
ExecResults ==
    [err : {TRUE}, output : {OutEmpty}, success : {FALSE}, cost : {0}, tick : {0}]
    \cup [err : {FALSE}, output : Outputs, success : BOOLEAN, cost : {0, 1}, tick : {0, 1}]

\* What create_checkpoint meets: each git command runs and exits zero, exits
\* non-zero, or cannot be run
CheckpointRuns == {"ok", "add_nonzero", "add_cannot_run", "commit_nonzero", "commit_cannot_run"}

\* An arbitrary iteration order of the map (the queues after a publish do not
\* depend on it)
AnyOrder(hs) == CHOOSE o \in IterOrders(DOMAIN hs) : TRUE

\* for event in events { self.bus.publish(event); }
RECURSIVE PublishAll(_, _, _)
PublishAll(hs, pd, events) ==
    The({IF evs = <<>> THEN q
         ELSE PublishAll(hs, Publish(hs, q, Head(evs), order).pending, Tail(evs))
         : q \in {pd}, evs \in {events}, order \in {AnyOrder(hs)}})

\* EventLoop::initialize: the seed event is published
SeedEvent == Event(TaskStart, <<Chars("prompt")>>, None, None)

\* EventLoop::check_termination (TerminationPolicy)
CheckTermination ==
    IF stopped THEN Some("Stopped")
    ELSE IF consecutive_failures >= cfg.max_consecutive_failures THEN Some("ConsecutiveFailures")
    ELSE IF cfg.max_cost_usd # None /\ cumulative_cost >= cfg.max_cost_usd[1] THEN Some("MaxCost")
    ELSE IF elapsed >= cfg.max_runtime_seconds THEN Some("MaxRuntime")
    ELSE IF iteration >= cfg.max_iterations THEN Some("MaxIterations")
    ELSE None

\* print_termination: the message for a reason
TerminationMessageSwapped(reason) ==
    CASE reason = "CompletionPromise" -> "Completion promise detected"
      [] reason = "MaxIterations" -> "Maximum runtime exceeded"
      [] reason = "MaxRuntime" -> "Maximum iterations reached"
      [] reason = "MaxCost" -> "Maximum cost exceeded"
      [] reason = "ConsecutiveFailures" -> "Too many consecutive failures"
      [] reason = "Stopped" -> "Manually stopped"

TerminationMessage(reason) ==
    CASE reason = "CompletionPromise" -> "Completion promise detected"
      [] reason = "MaxIterations" -> "Maximum iterations reached"
      [] reason = "MaxRuntime" -> "Maximum runtime exceeded"
      [] reason = "MaxCost" -> "Maximum cost exceeded"
      [] reason = "ConsecutiveFailures" -> "Too many consecutive failures"
      [] reason = "Stopped" -> "Manually stopped"

\* print_termination: what is printed
PrintTermination(reason) ==
    [reason |-> reason,
     msg |-> TerminationMessage(reason),
     iterations |-> iteration,
     elapsed |-> elapsed,
     cost |-> IF cumulative_cost > 0 THEN Some(cumulative_cost) ELSE None]

\* EventLoop::next_hat
NextHat == NextHatWithPending(pending)

\* EventLoop::build_prompt: None for a hat the registry does not hold;
\* otherwise the hat's pending events are taken for the prompt's context
BuildPromptFound(id) == id \in DOMAIN hats

\* EventLoop::process_output (Ingest): the promise ends the run before any
\* update; otherwise cost and failures are updated and the parsed events
\* published
ProcessOutput(id, r) ==
    IF ContainsPromise(r.output, cfg.completion_promise)
    THEN [reason |-> Some("CompletionPromise"),
          cost |-> cumulative_cost,
          failures |-> consecutive_failures,
          pending |-> pending]
    ELSE [reason |-> None,
          cost |-> cumulative_cost + r.cost,
          failures |-> IF r.success THEN 0 ELSE consecutive_failures + 1,
          pending |-> PublishAll(hats, pending, Parse(Some(id), r.output))]

\* EventLoop::should_checkpoint
ShouldCheckpoint == iteration % cfg.checkpoint_interval = 0 /\ iteration > 0

\* create_checkpoint: TRUE for Ok(()), FALSE for Err
CreateCheckpointOk(run) == run \notin {"add_cannot_run", "commit_cannot_run"}

LoopInit ==
    /\ cfg \in LoopConfigs
    /\ hats = LoopHats(cfg)
    /\ pending = PublishAll(hats, [h \in DOMAIN hats |-> <<>>], <<SeedEvent>>)
    /\ last = NoCall
    /\ delivered = [h \in HatIds |-> <<>>]
    /\ taken = [h \in HatIds |-> <<>>]
    /\ npub = 0
    /\ iteration = 0
    /\ consecutive_failures = 0
    /\ cumulative_cost = 0
    /\ stopped = FALSE
    /\ elapsed = 0
    /\ pc = "precheck"
    /\ hat_id = None
    /\ result = None
    /\ outcome = "running"
    /\ report = None
    /\ execs = 0
    /\ stop_in_flight = FALSE
    /\ failed_since_success = 0
    /\ MatchIdle
    /\ ParserIdle
    /\ ReaderIdle
    /\ ScanIdle
    /\ RalphIdle

\* run_loop: "Check termination before execution"
PreCheckNoBreak ==
    /\ pc = "precheck"
    /\ LET reason == CheckTermination
       IN  /\ report' = IF reason # None THEN Some(PrintTermination(reason[1])) ELSE report
           /\ pc' = "select"
    /\ UNCHANGED <<busVars, libVars, cfg, iteration, consecutive_failures, cumulative_cost, stopped,
                   stop_in_flight, failed_since_success, elapsed, hat_id, result, outcome, execs>>

PreCheck ==
    /\ pc = "precheck"
    /\ LET reason == CheckTermination
       IN  IF reason # None
           THEN /\ report' = Some(PrintTermination(reason[1]))
                /\ outcome' = "terminated"
                /\ pc' = "done"
           ELSE /\ pc' = "select"
                /\ UNCHANGED <<report, outcome>>
    /\ UNCHANGED <<busVars, libVars, cfg, iteration, consecutive_failures, cumulative_cost, stopped,
                   stop_in_flight, failed_since_success,
                   elapsed, hat_id, result, execs>>

\* run_loop: the None arm of "Get next hat to execute"
NoHatEndsStopped ==
    [pc |-> "done", outcome |-> "terminated", report |-> Some(PrintTermination("Stopped"))]

NoHatContinues == [pc |-> "precheck", outcome |-> "running", report |-> report]

NoHatEnds == [pc |-> "done", outcome |-> "no_pending", report |-> report]

\* run_loop: "Get next hat to execute"
SelectHat ==
    /\ pc = "select"
    /\ IF NextHat = {}
       THEN /\ pc' = NoHatEnds.pc
            /\ outcome' = NoHatEnds.outcome
            /\ report' = NoHatEnds.report
            /\ UNCHANGED hat_id
       ELSE /\ \E id \in NextHat : hat_id' = Some(id)
            /\ pc' = "build"
            /\ UNCHANGED <<outcome, report>>
    /\ UNCHANGED <<busVars, libVars, cfg, iteration, consecutive_failures, cumulative_cost, stopped,
                   stop_in_flight, failed_since_success,
                   elapsed, result, execs>>

\* run_loop: "Build prompt for this hat"
BuildPrompt ==
    /\ pc = "build"
    /\ IF cfg.mode = "single"
       THEN /\ pc' = "execute"
            /\ UNCHANGED pending
       ELSE IF BuildPromptFound(hat_id[1])
            THEN /\ pending' = TakePendingRest(pending, hat_id[1])
                 /\ pc' = "execute"
            ELSE /\ pc' = "precheck"
                 /\ UNCHANGED pending
    /\ hat_id' = IF pc' = "precheck" THEN None ELSE hat_id
    /\ UNCHANGED <<hats, busHistory, libVars, cfg, iteration, consecutive_failures, cumulative_cost,
                   stopped, stop_in_flight, failed_since_success, elapsed, result, outcome, report, execs>>

\* run_loop: the `?` on executor.execute(..).await
ExecuteErrContinues == [pc |-> "ingest", outcome |-> "running"]

ExecuteErr == [pc |-> "done", outcome |-> "error"]

\* run_loop: "Execute the prompt"
Execute ==
    /\ pc = "execute"
    /\ \E r \in ExecResults :
          /\ elapsed' = elapsed + r.tick
          /\ IF r.err
             THEN /\ pc' = ExecuteErr.pc
                  /\ outcome' = ExecuteErr.outcome
                  /\ result' = IF ExecuteErr.pc = "done" THEN result ELSE Some(r)
             ELSE /\ pc' = "ingest"
                  /\ result' = Some(r)
                  /\ UNCHANGED outcome
          /\ failed_since_success' =
                IF ~r.err /\ r.success THEN 0 ELSE failed_since_success + 1
    /\ execs' = execs + 1
    /\ UNCHANGED <<busVars, libVars, cfg, iteration, consecutive_failures, cumulative_cost, stopped,
                   stop_in_flight, hat_id, report>>

\* run_loop: where it goes after process_output returned `reason`
AfterProcessOutput(reason) == IF reason # None THEN "done" ELSE "checkpoint"

\* run_loop: "Process output"
IngestOutputSuccessTrue ==
    /\ pc = "ingest"
    /\ \E p \in {ProcessOutput(hat_id[1], [result[1] EXCEPT !.success = TRUE])} :
           /\ cumulative_cost' = p.cost
           /\ consecutive_failures' = p.failures
           /\ pending' = p.pending
           /\ pc' = AfterProcessOutput(p.reason)
           /\ IF pc' = "done"
              THEN /\ report' = Some([PrintTermination(p.reason[1]) EXCEPT
                                         !.cost = IF p.cost > 0 THEN Some(p.cost) ELSE None])
                   /\ outcome' = "terminated"
              ELSE UNCHANGED <<report, outcome>>
    /\ result' = IF pc' = "done" THEN result ELSE None
    /\ UNCHANGED <<hats, busHistory, libVars, cfg, iteration, stopped, stop_in_flight,
                   failed_since_success, elapsed, hat_id, execs>>

IngestOutput ==
    /\ pc = "ingest"
    /\ \E p \in {ProcessOutput(hat_id[1], result[1])} :
           /\ cumulative_cost' = p.cost
           /\ consecutive_failures' = p.failures
           /\ pending' = p.pending
           /\ pc' = AfterProcessOutput(p.reason)
           /\ IF pc' = "done"
              THEN /\ report' = Some([PrintTermination(p.reason[1]) EXCEPT
                                         !.cost = IF p.cost > 0 THEN Some(p.cost) ELSE None])
                   /\ outcome' = "terminated"
              ELSE UNCHANGED <<report, outcome>>
    /\ result' = IF pc' = "done" THEN result ELSE None
    /\ UNCHANGED <<hats, busHistory, libVars, cfg, iteration, stopped, stop_in_flight,
                   failed_since_success, elapsed, hat_id, execs>>

\* LoopState.iteration after a completed pass ("Advance iteration")
AdvanceIteration == iteration + 1

\* run_loop: "Handle checkpointing", then the next pass with the iteration
\* counter advanced
Checkpoint ==
    /\ pc = "checkpoint"
    /\ \E run \in CheckpointRuns :
          IF ShouldCheckpoint /\ ~CreateCheckpointOk(run)
          THEN /\ pc' = "done"
               /\ outcome' = "error"
               /\ UNCHANGED <<iteration, hat_id, result>>
          ELSE /\ pc' = "precheck"
               /\ iteration' = AdvanceIteration
               /\ hat_id' = None
               /\ result' = None
               /\ UNCHANGED outcome
    /\ UNCHANGED <<busVars, libVars, cfg, consecutive_failures, cumulative_cost, stopped,
                   stop_in_flight, failed_since_success, elapsed,
                   report, execs>>

\* The external signal that sets LoopState.stopped
SetStopped ==
    /\ pc # "done"
    /\ ~stopped
    /\ stopped' = TRUE
    /\ stop_in_flight' = (pc = "execute")
    /\ UNCHANGED <<busVars, libVars, cfg, iteration, consecutive_failures, cumulative_cost, elapsed,
                   pc, hat_id, result, outcome, report, execs, failed_since_success>>

LoopStep ==
    \/ PreCheck
    \/ SelectHat
    \/ BuildPrompt
    \/ Execute
    \/ IngestOutput
    \/ Checkpoint

LoopNext == LoopStep \/ SetStopped

LoopSpec == LoopInit /\ [][LoopNext]_vars

\* The loop is a sequential program that keeps running, and every executor
\* call returns
FairLoopSpec == LoopSpec /\ WF_vars(LoopStep)

----------------------------------------------------------------------------
(* Claims about the loop *)

\* The output holds the completion promise
HoldsPromise(output) == Chars(CompletionPromise) \in Range(output)

\* C6: with a finite max_iterations the loop reaches a terminated state,
\* whatever the executor returns and whatever events the hats publish.
C6_LoopTerminates == <>(pc = "done")

\* C6 witness: every pass published events again and hats still have pending
\* events, yet the run was ended by MaxIterations after max_iterations
\* executions.
C6_Witness ==
    /\ pc = "done"
    /\ cfg.mode = "multi"
    /\ report # None
    /\ report[1].reason = "MaxIterations"
    /\ execs = cfg.max_iterations
    /\ execs > 1
    /\ Cardinality(NextHatWithPending(pending)) > 1

\* C7: when the output of an execution holds the completion promise the loop
\* ends at once with CompletionPromise: no queue changes (no event parsed from
\* that output is published) and the iteration counter is not advanced.
C7_PromiseEndsRun ==
    [][(pc = "ingest" /\ pc' # "ingest" /\ HoldsPromise(result[1].output)) =>
         /\ pc' = "done"
         /\ outcome' = "terminated"
         /\ report' # None
         /\ report'[1].reason = "CompletionPromise"
         /\ report'[1].iterations = iteration
         /\ pending' = pending
         /\ iteration' = iteration]_vars

\* C7 witness: the first output held an event tag and the promise; the run
\* ended with CompletionPromise at iteration 0 and the event is in no queue.
C7_Witness ==
    /\ pc = "done"
    /\ report # None
    /\ report[1].reason = "CompletionPromise"
    /\ result # None
    /\ result[1].output = OutEventPromise
    /\ execs = 1
    /\ iteration = 0
    /\ report[1].iterations = 0
    /\ \A h \in DOMAIN pending : \A i \in 1..Len(pending[h]) : pending[h][i].topic # ImplDone

\* The message print_termination prints for the first termination predicate
\* that holds, in the order Stopped, ConsecutiveFailures, MaxCost (when
\* configured), MaxRuntime, MaxIterations; "" when none holds
FirstReasonMessage ==
    IF stopped THEN "Manually stopped"
    ELSE IF consecutive_failures >= cfg.max_consecutive_failures THEN "Too many consecutive failures"
    ELSE IF cfg.max_cost_usd # None /\ cumulative_cost >= cfg.max_cost_usd[1] THEN "Maximum cost exceeded"
    ELSE IF elapsed >= cfg.max_runtime_seconds THEN "Maximum runtime exceeded"
    ELSE IF iteration >= cfg.max_iterations THEN "Maximum iterations reached"
    ELSE ""

\* C8: at a pre-check the reported reason is the first termination predicate
\* that holds, in the order Stopped, ConsecutiveFailures, MaxCost (only when
\* max_cost_usd is configured), MaxRuntime, MaxIterations; the loop goes on
\* when none holds.
C8_FirstReasonWins ==
    [][(pc = "precheck" /\ pc' # "precheck") =>
         IF FirstReasonMessage = ""
         THEN pc' = "select" /\ report' = None
         ELSE /\ pc' = "done"
              /\ report' # None
              /\ report'[1].msg = FirstReasonMessage]_vars

\* C8 witness: the failure, cost, runtime and iteration limits were all
\* reached at the same pre-check and ConsecutiveFailures was reported.
C8_Witness ==
    /\ pc = "done"
    /\ report # None
    /\ report[1].reason = "ConsecutiveFailures"
    /\ ~stopped
    /\ cfg.max_cost_usd # None
    /\ cumulative_cost >= cfg.max_cost_usd[1]
    /\ elapsed >= cfg.max_runtime_seconds
    /\ iteration >= cfg.max_iterations

C9_WitnessError ==
    /\ pc = "done"
    /\ outcome = "error"
    /\ execs = 1
    /\ iteration = 0
    /\ report = None

\* C10 as stated: when no hat has a pending event at hat selection the loop
\* ends with reason Stopped, reported like every termination, and the
\* executor is not invoked.
C10_NoPendingReportsStopped ==
    [][(pc = "select" /\ pc' # "select" /\ ~HasPending(pending)) =>
         /\ pc' = "done"
         /\ report' # None
         /\ report'[1].reason = "Stopped"
         /\ report'[1].iterations = iteration
         /\ execs' = execs]_vars

\* C10 amended: when no hat has a pending event at hat selection the loop
\* ends without invoking the executor, and it ends without a termination
\* reason and without the termination report.
C10_NoPendingEndsSilently ==
    [][/\ (pc = "select" /\ pc' # "select" /\ ~HasPending(pending)) =>
             /\ pc' = "done"
             /\ outcome' = "no_pending"
             /\ report' = None
             /\ execs' = execs
       /\ pc = "done" => (pc' = "done" /\ execs' = execs /\ report' = report)]_vars

\* C10 witness: a hat took its events, its execution published nothing, and
\* the next hat selection found no pending event.
C10_Witness ==
    /\ pc = "done"
    /\ outcome = "no_pending"
    /\ report = None
    /\ execs >= 1
    /\ iteration = execs
    /\ ~stopped

\* C11 as stated: when the stop flag is set while an executor call is in
\* flight, the call runs to completion, its output is ingested (failure
\* counter updated), no further call is started, and the loop ends only at
\* the next pre-check, with Stopped.
C11_StopEndsWithStopped ==
    [][stop_in_flight =>
         /\ (pc = "execute" /\ pc' # pc) => (pc' = "ingest" /\ execs' = execs + 1)
         /\ (pc = "ingest" /\ pc' # pc) =>
               /\ pc' = "checkpoint"
               /\ consecutive_failures' =
                     IF result[1].success THEN 0 ELSE consecutive_failures + 1
         /\ (pc # "done" /\ pc' = "done") =>
               (pc = "precheck" /\ report' # None /\ report'[1].reason = "Stopped")
         /\ pc # "execute" => execs' = execs]_vars

\* C11 amended: when the stop flag is set while an executor call is in
\* flight, that call runs to completion and no further call is started.  If
\* the call returns an error the run ends with it.  If its output holds the
\* completion promise the loop ends with CompletionPromise and nothing is
\* published.  Otherwise the output is ingested (failure counter updated,
\* events published) and the loop ends with Stopped at the next pre-check,
\* unless the checkpoint in between cannot be run, which ends the run with
\* that error.
C11_StopAfterInFlight ==
    [][stop_in_flight =>
         /\ (pc = "execute" /\ pc' # pc) =>
               /\ execs' = execs + 1
               /\ \/ pc' = "ingest" /\ result' # None /\ ~result'[1].err
                  \/ pc' = "done" /\ outcome' = "error" /\ report' = None
         /\ (pc = "ingest" /\ pc' # pc) =>
               IF HoldsPromise(result[1].output)
               THEN /\ pc' = "done"
                    /\ report' # None
                    /\ report'[1].reason = "CompletionPromise"
                    /\ pending' = pending
               ELSE /\ pc' = "checkpoint"
                    /\ consecutive_failures' =
                          IF result[1].success THEN 0 ELSE consecutive_failures + 1
                    /\ (result[1].output = OutEvent /\ hat_id # Some("reviewer")
                           /\ "reviewer" \in DOMAIN hats) =>
                          Queue(pending', "reviewer") =
                             Append(Queue(pending, "reviewer"),
                                    Event(ImplDone, <<Chars("ok")>>, hat_id, None))
         /\ (pc = "checkpoint" /\ pc' # pc) =>
               \/ pc' = "precheck"
               \/ pc' = "done" /\ outcome' = "error" /\ report' = report
         /\ (pc = "precheck" /\ pc' # pc) =>
               (pc' = "done" /\ report' # None /\ report'[1].reason = "Stopped")
         /\ pc \in {"execute", "ingest", "checkpoint", "precheck", "done"}
         /\ pc # "execute" => execs' = execs]_vars

\* C11 witness: the flag was set during the first call, which failed and
\* published impl.done; the failure was counted, reviewer holds the event,
\* and the pre-check that followed ended the run with Stopped.
C11_Witness ==
    /\ pc = "done"
    /\ stop_in_flight
    /\ report # None
    /\ report[1].reason = "Stopped"
    /\ execs = 1
    /\ iteration = 1
    /\ consecutive_failures = 1
    /\ cfg.max_consecutive_failures = 2
    /\ "reviewer" \in DOMAIN pending
    /\ \E i \in 1..Len(pending["reviewer"]) : pending["reviewer"][i].topic = ImplDone

\* C17: iteration starts at 0, never decreases and grows by exactly 1 for
\* each completed execution that does not end the loop (at every pre-check it
\* is the number of executions made); the executor is never invoked when
\* iteration >= max_iterations, and at most max_iterations times in a run.
C17_IterationCounts ==
    /\ iteration = 0
    /\ [][/\ iteration' \in {iteration, iteration + 1}
          /\ execs' # execs =>
                (pc = "execute" /\ execs' = execs + 1 /\ iteration < cfg.max_iterations)
          /\ execs' <= cfg.max_iterations
          /\ pc' = "precheck" => iteration' = execs'
          /\ (pc' = "done" /\ pc # "precheck") => iteration' = iteration]_vars

\* C17 witness: with max_iterations = 3 the executor was invoked three
\* times, iteration reached 3 and the run ended with MaxIterations.
C17_Witness ==
    /\ pc = "done"
    /\ cfg.max_iterations = 3
    /\ execs = 3
    /\ iteration = 3
    /\ report # None
    /\ report[1].reason = "MaxIterations"
    /\ report[1].iterations = 3

\* C18: at every pre-check consecutive_failures is the number of failed
\* executions since the most recent successful one (since the start of the
\* run if none succeeded): a failed execution adds exactly 1, a successful
\* one resets it to 0.
C18_FailuresSinceSuccess ==
    pc = "precheck" => consecutive_failures = failed_since_success

\* C18 witness: a successful execution was followed by two failed ones; with
\* max_consecutive_failures = 2 the third pre-check found the count at 2.
C18_Witness ==
    /\ pc = "done"
    /\ cfg.max_consecutive_failures = 2
    /\ execs = 3
    /\ iteration = 3
    /\ failed_since_success = 2
    /\ consecutive_failures = 2
    /\ report # None
    /\ report[1].reason = "ConsecutiveFailures"

\* The event tags written in an agent output, in the order they appear:
\* topic, target attribute and trimmed content of each
TagsIn(output) ==
    CASE output = OutEvent ->
             <<[topic |-> ImplDone, target |-> None, payload |-> <<Chars("ok")>>]>>
      [] output = OutTwoEvents ->
             <<[topic |-> ImplDone, target |-> None, payload |-> <<Chars("go")>>],
               [topic |-> Handoff, target |-> Some("reviewer"), payload |-> <<Chars("look")>>]>>
      [] OTHER -> <<>>

\* The events hat h is to receive out of the tags of an output written by the
\* hat src, in output order
TagsFor(h, src, output) ==
    LET stamped == [i \in 1..Len(TagsIn(output)) |->
                        Event(TagsIn(output)[i].topic, TagsIn(output)[i].payload,
                              Some(src), TagsIn(output)[i].target)]
        Receives(e) == ShouldReceive(e, hats[h])
    IN  SelectSeq(stamped, Receives)

\* C19: when the events of an execution's output are parsed and published
\* (the output does not hold the completion promise), every registered hat's
\* queue becomes its old queue followed by the events of the output it is to
\* receive, in the order they appear in the output and each with the
\* executing hat as source; no queue is created for an unregistered target.
C19_PublishedInOutputOrder ==
    [][(pc = "ingest" /\ pc' = "checkpoint") =>
         /\ \A h \in DOMAIN hats :
               Queue(pending', h) = Queue(pending, h) \o TagsFor(h, hat_id[1], result[1].output)
         /\ DOMAIN pending' \subseteq DOMAIN pending \cup DOMAIN hats]_vars

\* C19 witness: impl wrote two events, both for reviewer, while reviewer
\* still held the event ralph had published before: the two were appended
\* after it in output order, each with impl as source.
C19_Witness ==
    /\ pc = "checkpoint"
    /\ hat_id = Some("impl")
    /\ "reviewer" \in DOMAIN pending
    /\ pending["reviewer"] = <<Event(ImplDone, <<Chars("ok")>>, Some("ralph"), None),
                               Event(ImplDone, <<Chars("go")>>, Some("impl"), None),
                               Event(Handoff, <<Chars("look")>>, Some("impl"), Some("reviewer"))>>

\* The event impl's output OutEvent becomes
ImplDoneEvent == Event(ImplDone, <<Chars("ok")>>, Some("impl"), None)

\* C20: with the hats impl (task.*) and reviewer (impl.*) and the seed
\* task.start queued for impl, when impl's execution in iteration 1 writes
\* the single event impl.done, the ingestion leaves exactly that event in
\* reviewer's queue and impl's queue empty, the queues stay so until the
\* iteration ends, and the selection of iteration 2 picks reviewer.
C20_Handoff ==
    [][/\ (/\ pc = "ingest" /\ pc' # pc
           /\ DOMAIN hats = {"impl", "reviewer"}
           /\ execs = 1
           /\ hat_id = Some("impl")
           /\ result[1].output = OutEvent)
          => /\ pc' = "checkpoint"
             /\ Queue(pending', "reviewer") = <<ImplDoneEvent>>
             /\ Queue(pending', "impl") = <<>>
       /\ (DOMAIN hats = {"impl", "reviewer"} /\ pc \in {"checkpoint", "precheck"})
          => pending' = pending
       /\ (/\ pc = "select" /\ pc' # pc
           /\ DOMAIN hats = {"impl", "reviewer"}
           /\ iteration = 1
           /\ Queue(pending, "reviewer") = <<ImplDoneEvent>>)
          => /\ Queue(pending, "impl") = <<>>
             /\ pc' = "build"
             /\ hat_id' = Some("reviewer")]_vars

\* C20 witness: iteration 2 has selected reviewer, whose queue holds the one
\* event impl wrote in iteration 1, and impl has nothing queued.
C20_Witness ==
    /\ pc = "build"
    /\ DOMAIN hats = {"impl", "reviewer"}
    /\ iteration = 1
    /\ execs = 1
    /\ hat_id = Some("reviewer")
    /\ Queue(pending, "reviewer") = <<ImplDoneEvent>>
    /\ Queue(pending, "impl") = <<>>

\* C21: whatever the checkpoint hook meets (a command that cannot be run, or
\* one that exits non-zero), the checkpoint step never ends the loop and
\* never yields an error: the loop goes on to the next pre-check with the
\* iteration counter advanced.
C21_CheckpointNeverFatal ==
    [][(pc = "checkpoint" /\ pc' # pc) =>
         /\ pc' = "precheck"
         /\ outcome' = "running"
         /\ iteration' = iteration + 1]_vars

----------------------------------------------------------------------------
(* More claims about the bus *)

\* C12: register(hat) with an id already in the registry is rejected: the hat
\* registered before under that id (its subscriptions) is not replaced.
C12_RegisterKeepsHat ==
    [][\A id \in DOMAIN hats : id \in DOMAIN hats' /\ hats'[id] = hats[id]]_vars

\* C13: next_hat_with_pending() is deterministic: whenever hats have
\* non-empty queues there is one hat it returns (the earliest registered
\* one), the same for every bus built by the same calls.
C13_NextHatDeterministic == Cardinality(NextHatWithPending(pending)) <= 1

\* C14: for an undirected event the list publish returns is ordered by the
\* registration of the recipients, so it is the same list whatever order the
\* map of hats is iterated in.
C14_RecipientsInRegistrationOrder ==
    [][(last'.op = "publish" /\ npub' = npub + 1 /\ last'.event[1].target = None) =>
         \A order \in IterOrders(DOMAIN hats) :
            Publish(hats, pending, last'.event[1], order).recipients = last'.recipients]_vars

C15_WitnessNoMatch ==
    /\ last.op = "publish"
    /\ last.event[1].topic = ImplDone
    /\ last.event[1].target = None
    /\ DOMAIN hats = {"impl"}
    /\ last.recipients = <<>>

\* C16: in every bus state has_pending() is true iff some hat's queue is
\* non-empty, and next_hat_with_pending() returns a hat whose queue is
\* non-empty when has_pending() is true and none otherwise.
C16_PendingQueries ==
    /\ HasPending(pending) = (\E h \in HatIds : Len(Queue(pending, h)) > 0)
    /\ (NextHatWithPending(pending) # {}) = HasPending(pending)
    /\ \A id \in NextHatWithPending(pending) :
          id \in DOMAIN pending /\ Len(pending[id]) > 0

\* C16 witness: one hat has a pending event, a second has an empty queue and
\* the queue of a third was removed by take_pending.
C16_Witness ==
    /\ DOMAIN hats = {"ralph", "impl", "reviewer"}
    /\ DOMAIN pending = {"ralph", "impl"}
    /\ pending["impl"] = <<>>
    /\ pending["ralph"] # <<>>
    /\ taken["reviewer"] # <<>>
    /\ NextHatWithPending(pending) = {"ralph"}

----------------------------------------------------------------------------
(* Hat::is_subscribed on its own *)

SubPatterns == {Star, ImplStar, "*.done", TaskStart}

SubTopics == {Handoff, "impl", ImplDone, "review.done", TaskStart, "impl.done.ok"}

\* The sequences over S of length at most n
SeqsUpTo(S, n) == UNION {[1..k -> S] : k \in 0..n}

MatchInit ==
    /\ sub_hat \in {Hat("impl", subs) : subs \in SeqsUpTo(SubPatterns, MaxSubs)}
    /\ sub_topic \in SubTopics
    /\ sub_answer = None
    /\ BusIdle
    /\ LoopIdle
    /\ ParserIdle
    /\ ReaderIdle
    /\ ScanIdle
    /\ RalphIdle

\* Hat::is_subscribed
IsSubscribedCall ==
    /\ sub_answer = None
    /\ sub_answer' = Some(IsSubscribed(sub_hat, sub_topic))
    /\ UNCHANGED <<sub_hat, sub_topic, busVars, loopVars, parserVars, readerVars, scanVars,
                   ralphVars>>

MatchNext == IsSubscribedCall

MatchSpec == MatchInit /\ [][MatchNext]_vars

\* The pairs <<pattern, topic>> of the patterns and topics above in which the
\* pattern is to match the topic: "*" every topic, a pattern without "*" the
\* identical topic, a "*" segment of a longer pattern exactly one segment
MatchTable ==
    {<<Star, t>> : t \in SubTopics}
    \cup {<<ImplStar, ImplDone>>, <<"*.done", ImplDone>>, <<"*.done", "review.done">>,
          <<TaskStart, TaskStart>>}

\* C22: is_subscribed(topic) is true iff at least one subscription pattern
\* of the hat matches the topic, where "*" alone matches every topic of any
\* number of segments, a pattern without "*" matches only the identical
\* topic, and a "*" segment of a multi-segment pattern matches exactly one
\* segment (impl.* matches impl.done, not review.done, impl or impl.done.ok).
C22_IsSubscribed ==
    sub_answer # None =>
        sub_answer[1] = (\E i \in 1..Len(sub_hat.subscriptions) :
                            <<sub_hat.subscriptions[i], sub_topic>> \in MatchTable)

\* C22 witness: the hat subscribing to impl.* and task.start was asked about
\* impl.done and answered yes.
C22_Witness ==
    /\ sub_hat.subscriptions = <<ImplStar, TaskStart>>
    /\ sub_topic = ImplDone
    /\ sub_answer = Some(TRUE)

\* C22 witness: the same hat asked about review.done answered no.
C22_WitnessNo ==
    /\ sub_hat.subscriptions = <<ImplStar, TaskStart>>
    /\ sub_topic = "review.done"
    /\ sub_answer = Some(FALSE)

----------------------------------------------------------------------------
(* EventParser::parse on its own *)

\* A well-formed tag as a piece of output; payload is the text between the
\* opening tag and the closer, trimmed the same text without the white space
\* around it
TagPiece(topic, target, payload, trimmed) ==
    [kind |-> "tag", topic |-> topic, target |-> target, payload |-> trimmed,
     toks |-> RenderTag(topic, target, payload)]

\* Any other piece of output
Piece(kind, toks) ==
    [kind |-> kind, topic |-> "", target |-> None, payload |-> <<>>, toks |-> toks]

\* Well-formed tags: with and without target, with a payload that is empty,
\* padded with white space, or holds tag-like text
TagPieces ==
    {TagPiece(ImplDone, None, <<Chars("a")>>, <<Chars("a")>>),
     TagPiece(TaskStart, Some("reviewer"), <<Ws, Chars("a"), Ws, Chars("b"), Ws>>,
              <<Chars("a"), Ws, Chars("b")>>),
     TagPiece(ImplDone, Some("reviewer"), <<Ws>>, <<>>),
     TagPiece(TaskStart, None, <<Chars("a"), Open, AttrOpen("topic"), Quote, Gt>>,
              <<Chars("a"), Open, AttrOpen("topic"), Quote, Gt>>)}

\* Text holding no `<event `: characters, white space, a stray `>`, a stray
\* `</event>`
TextPieces ==
    {Piece("text", <<Chars("a")>>), Piece("text", <<Ws>>),
     Piece("stray", <<Gt>>), Piece("stray", <<Close>>)}

\* Broken tags: `<event ` alone; a topic with no `>` behind; no topic
\* attribute; a topic attribute whose quote is not closed; no `</event>`
\* behind; topic=""
BrokenPieces ==
    {Piece("bare", <<Open>>),
     Piece("no_gt", <<Open, AttrOpen("topic"), Chars("x.nogt"), Quote>>),
     Piece("no_topic", <<Open, AttrOpen("target"), Chars("reviewer"), Quote, Gt, Chars("a"), Close>>),
     Piece("open_quote", <<Open, AttrOpen("topic"), Chars("x.quote"), Gt, Chars("a"), Close>>),
     Piece("no_close", <<Open, AttrOpen("topic"), Chars("x.noclose"), Quote, Gt, Chars("a")>>),
     Piece("empty_topic", RenderTag("", None, <<Chars("a")>>))}

Pieces == TagPieces \cup TextPieces \cup BrokenPieces

\* White space before and behind a payload
Pads == {<<>>, <<Ws>>, <<Ws, Ws>>}

\* Payloads with no white space around them: empty, characters, white space
\* inside, tag-like text, a stray `>`, attribute-like text
Cores ==
    {<<>>, <<Chars("a")>>, <<Chars("a"), Ws, Chars("b")>>,
     <<Chars("a"), Open, AttrOpen("topic"), Quote, Gt>>, <<Gt>>,
     <<Quote, AttrOpen("target"), Chars("impl"), Quote>>}

\* The tags rendered from the events of these topics, targets and payloads
RenderedTags ==
    {TagPiece(t, g, l \o core \o r, core) :
        t \in {ImplDone, TaskStart, Handoff}, g \in {None, Some("reviewer"), Some("impl")},
        l \in Pads, r \in Pads, core \in Cores}

\* The output the pieces spell
RECURSIVE Flatten(_)
Flatten(pieces) ==
    IF pieces = <<>> THEN <<>> ELSE Head(pieces).toks \o Flatten(Tail(pieces))

ParseInit ==
    /\ parser_source \in {None, Some("impl")}
    /\ parser_pieces \in SeqsUpTo(Pieces, MaxPieces) \cup {<<t>> : t \in RenderedTags}
    /\ parser_output = Flatten(parser_pieces)
    /\ parser_events = None
    /\ BusIdle
    /\ LoopIdle
    /\ MatchIdle
    /\ ReaderIdle
    /\ ScanIdle
    /\ RalphIdle

\* EventParser::parse
ParseCall ==
    /\ parser_events = None
    /\ parser_events' = Some(Parse(parser_source, parser_output))
    /\ UNCHANGED <<parser_source, parser_output, parser_pieces, busVars, loopVars, matchVars,
                   readerVars, scanVars, ralphVars>>

ParseNext == ParseCall

ParseSpec == ParseInit /\ [][ParseNext]_vars

----------------------------------------------------------------------------
(* Claims about the parser *)

\* The events of the well-formed tags among the pieces, in the order of the
\* pieces, as a parser with the given source is to return them
RECURSIVE TagEvents(_, _)
TagEvents(pieces, source) ==
    IF pieces = <<>> THEN <<>>
    ELSE (IF Head(pieces).kind = "tag"
          THEN <<Event(Head(pieces).topic, Head(pieces).payload, source, Head(pieces).target)>>
          ELSE <<>>)
         \o TagEvents(Tail(pieces), source)

\* Every piece is of one of the given kinds
OnlyKinds(pieces, kinds) == \A i \in 1..Len(pieces) : pieces[i].kind \in kinds

\* C23: for an output made of well-formed tags and of text holding no
\* `<event `, parse returns exactly one event per tag, in the order of the
\* tags in the output; when the output holds no `<event ` (the empty output
\* included) it returns no event.
C23_OneEventPerTag ==
    (parser_events # None /\ OnlyKinds(parser_pieces, {"tag", "text", "stray"})) =>
        /\ parser_events[1] = TagEvents(parser_pieces, parser_source)
        /\ (Find(parser_output, Open) = 0 => parser_events[1] = <<>>)

\* C23 witness: two tags with text between them gave two events, in the
\* order of the tags.
C23_Witness ==
    /\ parser_events # None
    /\ Len(parser_pieces) = 3
    /\ parser_pieces[1] = TagPiece(ImplDone, None, <<Chars("a")>>, <<Chars("a")>>)
    /\ parser_pieces[2].kind = "text"
    /\ parser_pieces[3].kind = "tag"
    /\ parser_pieces[3].topic = TaskStart
    /\ Len(parser_events[1]) = 2
    /\ parser_events[1][1].topic = ImplDone
    /\ parser_events[1][2].topic = TaskStart

\* C23 witness: an output of text only gave no event.
C23_WitnessNoEvents ==
    /\ parser_events = Some(<<>>)
    /\ parser_pieces # <<>>
    /\ OnlyKinds(parser_pieces, {"text"})

\* C24: parse of the tag rendered from an event returns exactly that one
\* event: the topic and the target of the tag (no target when the tag has
\* none), the payload of the tag without the white space around it, and the
\* parser's source.
C24_RoundTrip ==
    (parser_events # None /\ Len(parser_pieces) = 1 /\ parser_pieces[1].kind = "tag") =>
        LET tag == parser_pieces[1]
        IN  /\ parser_output = tag.toks
            /\ Len(parser_events[1]) = 1
            /\ parser_events[1][1].topic = tag.topic
            /\ parser_events[1][1].target = tag.target
            /\ parser_events[1][1].payload = tag.payload
            /\ parser_events[1][1].source = parser_source

\* C24 witness: <event topic="handoff" target="reviewer">  a b </event> gave
\* the one event handoff for reviewer with payload `a b`.
C24_Witness ==
    /\ parser_output = RenderTag(Handoff, Some("reviewer"),
                                 <<Ws, Ws, Chars("a"), Ws, Chars("b"), Ws>>)
    /\ parser_events = Some(<<Event(Handoff, <<Chars("a"), Ws, Chars("b")>>, parser_source,
                                    Some("reviewer"))>>)

\* Token t occurs in a piece behind piece i
OccursBehind(pieces, i, t) ==
    \E j \in (i + 1)..Len(pieces) : \E k \in 1..Len(pieces[j].toks) : pieces[j].toks[k] = t

\* The pieces hold a malformed tag, and every broken piece is a malformed
\* tag: a `<event ` with no `>` anywhere behind it, an opening tag without a
\* (closed) topic attribute, or an opening tag with no `</event>` anywhere
\* behind it
HoldsMalformed(pieces) ==
    /\ OnlyKinds(pieces, {"tag", "text", "stray", "bare", "no_gt", "no_topic", "open_quote",
                          "no_close"})
    /\ ~OnlyKinds(pieces, {"tag", "text", "stray"})
    /\ \A i \in 1..Len(pieces) :
          /\ pieces[i].kind \in {"bare", "no_gt"} => ~OccursBehind(pieces, i, Gt)
          /\ pieces[i].kind = "no_close" => ~OccursBehind(pieces, i, Close)

C25_WitnessNoGtNoClose ==
    /\ parser_events # None
    /\ Len(parser_pieces) = 3
    /\ parser_pieces[1].kind = "tag"
    /\ parser_pieces[2].kind = "no_close"
    /\ parser_pieces[3].kind = "no_gt"
    /\ Len(parser_events[1]) = 1

\* The well-formed tags among the pieces, in order
TagsOf(pieces) ==
    LET IsTag(piece) == piece.kind = "tag"
    IN  SelectSeq(pieces, IsTag)

C26_WitnessNoSource ==
    /\ parser_source = None
    /\ parser_events # None
    /\ Len(parser_events[1]) = 1
    /\ parser_events[1][1].source = None
    /\ parser_events[1][1].target = None
    /\ parser_events[1][1].payload = <<Quote, AttrOpen("target"), Chars("impl"), Quote>>

\* C27: every event parse returns has a non-empty topic, whatever the
\* output, tags written with topic="" included.
C27_TopicNonEmpty ==
    parser_events # None =>
        \A i \in 1..Len(parser_events[1]) : parser_events[1][i].topic # ""

----------------------------------------------------------------------------
(* EventReader *)

\* The bytes of the log: LF, CR, a blank, a byte of text that is no JSON, and
\* the two bytes of the JSON text of event id
Byte(b, id, part) == [b |-> b, id |-> id, part |-> part]

Lf == Byte("lf", 0, 0)

Cr == Byte("cr", 0, 0)

Sp == Byte("sp", 0, 0)

Junk == Byte("x", 0, 0)

EventJson(id) == <<Byte("ev", id, 1), Byte("ev", id, 2)>>

\* The lines a writer appends: line n is the event n, a blank line or a line
\* that is no JSON, ended by LF or by CR LF
LineText(kind, n) ==
    CASE kind = "event" -> EventJson(n)
      [] kind = "blank" -> <<Sp>>
      [] kind = "corrupt" -> <<Junk>>

LineEnd(end) == IF end = "lf" THEN <<Lf>> ELSE <<Cr, Lf>>

\* How lines are written: kind, line end, and the number of bytes of the
\* first write (0 for the whole line at once)
Writes ==
    {[kind |-> "event", end |-> "lf", first |-> 0],
     [kind |-> "event", end |-> "lf", first |-> 1],
     [kind |-> "event", end |-> "lf", first |-> 2],
     [kind |-> "event", end |-> "crlf", first |-> 0],
     [kind |-> "blank", end |-> "lf", first |-> 0],
     [kind |-> "corrupt", end |-> "lf", first |-> 0]}

\* str::trim / the white space serde_json skips around a value
RECURSIVE TrimBytes(_)
TrimBytes(line) ==
    IF line = <<>> THEN line
    ELSE IF Head(line).b \in {"sp", "cr"} THEN TrimBytes(Tail(line))
    ELSE IF line[Len(line)].b \in {"sp", "cr"} THEN TrimBytes(SubSeq(line, 1, Len(line) - 1))
    ELSE line

\* serde_json::from_str::<Event>(&line): Some(id) for Ok, None for Err
FromStr(line) ==
    LET text == TrimBytes(line)
    IN  IF Len(text) = 2 /\ text[1].b = "ev" /\ text = EventJson(text[1].id)
        THEN Some(text[1].id)
        ELSE None

\* BufRead::lines over the bytes bs: the text before each LF without the LF
\* and without a CR before it, and the text behind the last LF if there is
\* any
RECURSIVE BufLines(_)
BufLines(bs) ==
    IF bs = <<>> THEN <<>>
    ELSE IF \E i \in 1..Len(bs) : bs[i] = Lf
         THEN LET i == CHOOSE i \in 1..Len(bs) : bs[i] = Lf /\ \A j \in 1..(i - 1) : bs[j] # Lf
                  text == SubSeq(bs, 1, i - 1)
              IN  <<IF text # <<>> /\ text[Len(text)] = Cr
                    THEN SubSeq(text, 1, Len(text) - 1)
                    ELSE text>>
                  \o BufLines(SubSeq(bs, i + 1, Len(bs)))
         ELSE <<bs>>

\* The loop of read_new_events over the lines: current_pos and events
RECURSIVE ReadLoop(_, _, _)
ReadLoopCorruptNotCounted(lines, current_pos, events) ==
    IF lines = <<>> THEN [position |-> current_pos, events |-> events]
    ELSE LET line == Head(lines)
             line_bytes == Len(line) + 1
         IN  IF TrimBytes(line) = <<>>
             THEN ReadLoop(Tail(lines), current_pos + line_bytes, events)
             ELSE IF FromStr(line) # None
                  THEN ReadLoop(Tail(lines), current_pos + line_bytes,
                                Append(events, FromStr(line)[1]))
                  ELSE ReadLoop(Tail(lines), current_pos, events)

ReadLoop(lines, current_pos, events) ==
    IF lines = <<>> THEN [position |-> current_pos, events |-> events]
    ELSE LET line == Head(lines)
             line_bytes == Len(line) + 1
         IN  IF TrimBytes(line) = <<>>
             THEN ReadLoop(Tail(lines), current_pos + line_bytes, events)
             ELSE ReadLoop(Tail(lines), current_pos + line_bytes,
                           IF FromStr(line) # None
                           THEN Append(events, FromStr(line)[1])
                           ELSE events)

\* file.seek(SeekFrom::Start(position)) and the bytes read from there
FromStart(bytes, pos) == bytes

FromPosition(bytes, pos) == SubSeq(bytes, pos + 1, Len(bytes))

ReadNewEventsRewind(bytes, pos) ==
    LET start == IF pos > Len(bytes) THEN Len(bytes) ELSE pos
    IN  ReadLoop(BufLines(FromPosition(bytes, start)), start, <<>>)

\* EventReader::read_new_events when every I/O call succeeds
ReadNewEventsOk(bytes, pos) == ReadLoop(BufLines(FromPosition(bytes, pos)), pos, <<>>)

\* The file ends in the middle of a line
EndsInLine(bytes) == bytes # <<>> /\ bytes[Len(bytes)] # Lf

ReaderInit ==
    /\ log \in {None, Some(<<>>)}
    /\ unwritten = <<>>
    /\ position = 0
    /\ read_result = None
    /\ written = 0
    /\ returned = <<>>
    /\ quiet = FALSE
    /\ shrunk = FALSE
    /\ resets = 0
    /\ partial_seen = FALSE
    /\ missing_seen = FALSE
    /\ err_seen = FALSE
    /\ BusIdle
    /\ LoopIdle
    /\ MatchIdle
    /\ ParserIdle
    /\ ScanIdle
    /\ RalphIdle

\* The writer begins line number written + 1 (creating the file if there is
\* none) and writes its first bytes, or all of it
WriteLine(w) ==
    /\ written < MaxLines
    /\ unwritten = <<>>
    /\ LET bytes == LineText(w.kind, written + 1) \o LineEnd(w.end)
           n == IF w.first = 0 THEN Len(bytes) ELSE w.first
       IN  /\ log' = Some((IF log = None THEN <<>> ELSE log[1]) \o SubSeq(bytes, 1, n))
           /\ unwritten' = SubSeq(bytes, n + 1, Len(bytes))
    /\ written' = written + 1
    /\ quiet' = FALSE
    /\ UNCHANGED <<position, read_result, returned, shrunk, resets, partial_seen,
                   missing_seen, err_seen, busVars, loopVars, matchVars, parserVars,
                   scanVars, ralphVars>>

\* The writer writes the rest of the line
WriteRest ==
    /\ unwritten # <<>>
    /\ log # None
    /\ log' = Some(log[1] \o unwritten)
    /\ unwritten' = <<>>
    /\ quiet' = FALSE
    /\ UNCHANGED <<position, read_result, written, returned, shrunk, resets, partial_seen,
                   missing_seen, err_seen, busVars, loopVars, matchVars, parserVars,
                   scanVars, ralphVars>>

\* The file is truncated to nothing
Truncate ==
    /\ log # None
    /\ log # Some(<<>>)
    /\ unwritten = <<>>
    /\ ~shrunk
    /\ log' = Some(<<>>)
    /\ shrunk' = TRUE
    /\ quiet' = FALSE
    /\ UNCHANGED <<unwritten, position, read_result, written, returned, resets, partial_seen,
                   missing_seen, err_seen, busVars, loopVars, matchVars, parserVars,
                   scanVars, ralphVars>>

\* The file is deleted
Delete ==
    /\ log # None
    /\ unwritten = <<>>
    /\ ~shrunk
    /\ log' = None
    /\ shrunk' = TRUE
    /\ quiet' = FALSE
    /\ UNCHANGED <<unwritten, position, read_result, written, returned, resets, partial_seen,
                   missing_seen, err_seen, busVars, loopVars, matchVars, parserVars,
                   scanVars, ralphVars>>

ReadMissingFails ==
    /\ log = None
    /\ read_result' = [ok |-> FALSE, events |-> <<>>]
    /\ err_seen' = TRUE
    /\ UNCHANGED <<log, unwritten, position, written, returned, quiet, shrunk, resets,
                   partial_seen, missing_seen, busVars, loopVars, matchVars, parserVars,
                   scanVars, ralphVars>>

\* EventReader::read_new_events: the file does not exist
ReadMissing ==
    /\ log = None
    /\ read_result' = [ok |-> TRUE, events |-> <<>>]
    /\ quiet' = TRUE
    /\ missing_seen' = TRUE
    /\ UNCHANGED <<log, unwritten, position, written, returned, shrunk, resets,
                   partial_seen, err_seen, busVars, loopVars, matchVars, parserVars,
                   scanVars, ralphVars>>

ReadErrPartWay ==
    /\ log # None
    /\ read_result' = [ok |-> FALSE, events |-> <<>>]
    /\ err_seen' = TRUE
    /\ \E n \in 0..Len(BufLines(FromPosition(log[1], position))) :
          position' = ReadLoop(SubSeq(BufLines(FromPosition(log[1], position)), 1, n),
                               position, <<>>).position
    /\ UNCHANGED <<log, unwritten, written, returned, quiet, shrunk, resets,
                   partial_seen, missing_seen, busVars, loopVars, matchVars, parserVars,
                   scanVars, ralphVars>>

\* EventReader::read_new_events: File::open, seek or a line read fails
ReadErr ==
    /\ log # None
    /\ read_result' = [ok |-> FALSE, events |-> <<>>]
    /\ err_seen' = TRUE
    /\ UNCHANGED <<log, unwritten, position, written, returned, quiet, shrunk, resets,
                   partial_seen, missing_seen, busVars, loopVars, matchVars, parserVars,
                   scanVars, ralphVars>>

\* EventReader::read_new_events: every I/O call succeeds
ReadOk ==
    /\ log # None
    /\ \E r \in {ReadNewEventsOk(log[1], position)} :
          /\ position' = r.position
          /\ read_result' = [ok |-> TRUE, events |-> r.events]
          /\ returned' = returned \o r.events
    /\ quiet' = TRUE
    /\ partial_seen' = (partial_seen \/ EndsInLine(log[1]))
    /\ UNCHANGED <<log, unwritten, written, shrunk, resets, missing_seen, err_seen, busVars,
                   loopVars, matchVars, parserVars,
                   scanVars, ralphVars>>

\* EventReader::read_new_events
ReadNewEvents == ReadMissing \/ ReadErr \/ ReadOk

ResetKeepsPosition ==
    /\ resets < 1
    /\ position' = position
    /\ resets' = resets + 1
    /\ quiet' = FALSE
    /\ UNCHANGED <<log, unwritten, read_result, written, returned, shrunk, partial_seen,
                   missing_seen, err_seen, busVars, loopVars, matchVars, parserVars,
                   scanVars, ralphVars>>

\* EventReader::reset
Reset ==
    /\ resets < 1
    /\ position' = 0
    /\ resets' = resets + 1
    /\ quiet' = FALSE
    /\ UNCHANGED <<log, unwritten, read_result, written, returned, shrunk, partial_seen,
                   missing_seen, err_seen, busVars, loopVars, matchVars, parserVars,
                   scanVars, ralphVars>>

ReaderNext ==
    \/ \E w \in Writes : WriteLine(w)
    \/ WriteRest
    \/ Truncate
    \/ Delete
    \/ ReadNewEvents
    \/ Reset

ReaderSpec == ReaderInit /\ [][ReaderNext]_vars

----------------------------------------------------------------------------
(* Claims about the reader *)

\* The events whose line is complete in the file (its JSON text followed by
\* LF or CR LF)
CompleteEvents(bytes) ==
    {n \in 1..MaxLines + 1 :
        \E i \in 1..Len(bytes) :
           /\ i + 2 <= Len(bytes)
           /\ SubSeq(bytes, i, i + 1) = EventJson(n)
           /\ \/ bytes[i + 2] = Lf
              \/ i + 3 <= Len(bytes) /\ bytes[i + 2] = Cr /\ bytes[i + 3] = Lf}

\* The numbers of S in ascending order (events are numbered by their line,
\* so this is file order)
Ascending(S) ==
    CHOOSE f \in [1..Cardinality(S) -> S] : \A i, j \in 1..Cardinality(S) : i < j => f[i] < f[j]

IsPrefix(a, b) == Len(a) <= Len(b) /\ a = SubSeq(b, 1, Len(a))

\* No line of the file ends with CR LF
NoCr(bytes) == \A i \in 1..Len(bytes) : bytes[i] # Cr

\* Up to now the file has only grown, every call that returned Ok found it
\* ending with a complete line, every line ends with a single LF, and reset
\* was not called
GrownByCompleteLines ==
    /\ log # None
    /\ ~shrunk
    /\ resets = 0
    /\ ~partial_seen
    /\ NoCr(log[1])

\* C28: while the log only grows by complete lines ended by a single LF
\* between the calls, the results of the calls so far, concatenated, hold
\* the events of the file in file order, none twice; and after a call that
\* returned Ok they hold every event of the file: each event line was
\* returned by exactly one call.
C28_EachEventOnce ==
    GrownByCompleteLines =>
        /\ IsPrefix(returned, Ascending(CompleteEvents(log[1])))
        /\ (quiet /\ ~EndsInLine(log[1])) => returned = Ascending(CompleteEvents(log[1]))

\* C28 witness: the first call returned event 1, then a corrupt line and
\* event 3 were appended and the second call returned event 3 only.
C28_Witness ==
    /\ GrownByCompleteLines
    /\ quiet
    /\ log[1] = EventJson(1) \o <<Lf>> \o <<Junk, Lf>> \o EventJson(3) \o <<Lf>>
    /\ returned = <<1, 3>>
    /\ read_result = [ok |-> TRUE, events |-> <<3>>]
    /\ position = Len(log[1])

\* C29: when nothing was written to the file, and it was neither truncated
\* nor deleted, since the last call of read_new_events that returned Ok,
\* the next call that returns Ok returns no event and leaves position as it
\* was, whatever the bytes of the file are.
C29_Idempotent ==
    [][(quiet /\ quiet' /\ read_result'.ok) =>
          /\ read_result'.events = <<>>
          /\ position' = position]_vars

\* C30: a step that is not a call of reset never lowers position: not a
\* call of read_new_events that returns Ok, one that returns Err or one that
\* finds no file, and not a write to the file, its truncation or its
\* deletion.
C30_PositionMonotone ==
    [][resets' = resets => position' >= position]_vars

\* C30 witness: after a call had moved position behind the first line, the
\* file was truncated and a shorter line was written; the next call
\* returned Ok with position still behind the end of the file, and reset
\* was never called.
C30_Witness ==
    /\ resets = 0
    /\ shrunk
    /\ quiet
    /\ log = Some(<<Junk, Lf>>)
    /\ read_result = [ok |-> TRUE, events |-> <<>>]
    /\ returned = <<1>>
    /\ position = 3

\* C30 witness: the file was deleted after a call had read it, and the next
\* call found no file and kept position.
C30_WitnessDeleted ==
    /\ resets = 0
    /\ shrunk
    /\ quiet
    /\ log = None
    /\ read_result = [ok |-> TRUE, events |-> <<>>]
    /\ position > 0

\* C31: a call of read_new_events that returns Ok over a file of complete
\* lines ended by a single LF returns the events of all valid lines behind
\* the old position in file order, skipping blank lines and lines that are
\* no JSON, and leaves position at the end of the file, behind every line
\* read.
C31_CorruptSkipped ==
    [][(/\ log # None
        /\ log' = log
        /\ GrownByCompleteLines'
        /\ ~EndsInLine(log[1])
        /\ quiet'
        /\ read_result'.ok) =>
          /\ read_result'.events =
                Ascending(CompleteEvents(SubSeq(log[1], position + 1, Len(log[1]))))
          /\ position' = Len(log[1])]_vars

\* C31 witness: one call read a good line, a line that is no JSON and a good
\* line, returned the two events and left position behind all three lines.
C31_Witness ==
    /\ GrownByCompleteLines
    /\ quiet
    /\ log[1] = EventJson(1) \o <<Lf>> \o <<Junk, Lf>> \o EventJson(3) \o <<Lf>>
    /\ read_result = [ok |-> TRUE, events |-> <<1, 3>>]
    /\ position = 8

\* C31 witness: a blank line between two calls is skipped and does not stall
\* the second call.
C31_WitnessBlank ==
    /\ GrownByCompleteLines
    /\ quiet
    /\ log[1] = EventJson(1) \o <<Lf>> \o <<Sp, Lf>> \o EventJson(3) \o <<Lf>>
    /\ returned = <<1, 3>>
    /\ read_result = [ok |-> TRUE, events |-> <<3>>]
    /\ position = 8

\* C32: a call of read_new_events while the file does not exist returns
\* Ok with no events and leaves position as it was; and when the file did
\* not exist at first and was then written by complete lines, the calls up
\* to one that returned Ok behind the last write have returned all its
\* events.
C32_MissingFile ==
    /\ [][(log = None /\ log' = None /\ resets' = resets) =>
             /\ read_result' = [ok |-> TRUE, events |-> <<>>]
             /\ position' = position]_vars
    /\ []((/\ missing_seen
           /\ GrownByCompleteLines
           /\ quiet
           /\ ~EndsInLine(log[1])) =>
             returned = Ascending(CompleteEvents(log[1])))

\* C32 witness: a call found no file and returned Ok with no events, then
\* the file appeared with two event lines and the next call returned both.
C32_Witness ==
    /\ missing_seen
    /\ ~err_seen
    /\ GrownByCompleteLines
    /\ quiet
    /\ log[1] = EventJson(1) \o <<Lf>> \o EventJson(2) \o <<Lf>>
    /\ read_result = [ok |-> TRUE, events |-> <<1, 2>>]
    /\ position = 6

\* C32 witness: no file, and the call returned Ok with no events.
C32_WitnessMissing ==
    /\ log = None
    /\ missing_seen
    /\ read_result = [ok |-> TRUE, events |-> <<>>]
    /\ position = 0

\* C33: a call of reset sets position to 0 and leaves the file as it is;
\* and a call of read_new_events that starts at position 0 behind a reset
\* and returns Ok, over a file of complete lines ended by a single LF,
\* returns every valid event of the file from its start, in file order.
C33_Reset ==
    [][/\ resets' # resets => (position' = 0 /\ log' = log /\ unwritten' = unwritten)
       /\ (/\ resets = 1
           /\ position = 0
           /\ log # None
           /\ log' = log
           /\ NoCr(log[1])
           /\ ~EndsInLine(log[1])
           /\ quiet'
           /\ read_result'.ok) =>
             /\ read_result'.events = Ascending(CompleteEvents(log[1]))
             /\ position' = Len(log[1])]_vars

\* C33 witness: the first call returned events 1 and 2, reset was called,
\* and the next call returned events 1 and 2 again (test_reset_position).
C33_Witness ==
    /\ resets = 1
    /\ ~shrunk
    /\ quiet
    /\ log = Some(EventJson(1) \o <<Lf>> \o EventJson(2) \o <<Lf>>)
    /\ returned = <<1, 2, 1, 2>>
    /\ read_result = [ok |-> TRUE, events |-> <<1, 2>>]
    /\ position = 6

\* C38: a call of read_new_events that returns Err leaves position as it
\* was before the call and returns no event; and so, while the file only
\* grows by complete lines ended by a single LF, the events returned up to
\* an Ok call behind the last write are all events of the file, each once,
\* however many calls failed in between.
C38_ErrKeepsPosition ==
    /\ [][(read_result' # read_result /\ ~read_result'.ok) =>
             /\ position' = position
             /\ returned' = returned
             /\ log' = log]_vars
    /\ []((/\ err_seen
           /\ GrownByCompleteLines
           /\ quiet
           /\ ~EndsInLine(log[1])) =>
             /\ returned = Ascending(CompleteEvents(log[1]))
             /\ position = Len(log[1]))

\* C38 witness: with two event lines in the file and position behind the
\* first, a call returned Err and position stayed behind the first line.
C38_Witness ==
    /\ err_seen
    /\ GrownByCompleteLines
    /\ log[1] = EventJson(1) \o <<Lf>> \o EventJson(2) \o <<Lf>>
    /\ read_result = [ok |-> FALSE, events |-> <<>>]
    /\ returned = <<1>>
    /\ position = 3

\* C38 witness: the retry behind a failed call returned the second event.
C38_WitnessRetry ==
    /\ err_seen
    /\ GrownByCompleteLines
    /\ quiet
    /\ log[1] = EventJson(1) \o <<Lf>> \o EventJson(2) \o <<Lf>>
    /\ read_result = [ok |-> TRUE, events |-> <<2>>]
    /\ returned = <<1, 2>>
    /\ position = 6

\* C37: when the file only grows, by lines ended by a single LF that may be
\* written in two pieces, and reset is not called, position never lies
\* behind the end of the file, the events returned so far are events of the
\* file in file order, none twice, and after an Ok call behind the last
\* write of a complete line they are all events of the file.
C37_PartialLine ==
    (/\ log # None
     /\ ~shrunk
     /\ resets = 0
     /\ NoCr(log[1])) =>
        /\ position <= Len(log[1])
        /\ IsPrefix(returned, Ascending(CompleteEvents(log[1])))
        /\ (quiet /\ ~EndsInLine(log[1])) => returned = Ascending(CompleteEvents(log[1]))

----------------------------------------------------------------------------
(* Publishing to a hat whose events were taken *)

\* C39: when a registered hat H has no entry in pending, which is the state
\* take_pending(H) leaves it in, a publish of an event E routed to H (by its
\* target, or by a subscription of H) names H among the recipients and
\* leaves E as the queue of H, so that has_pending() is true and
\* take_pending(H) returns E.
C39_PublishAfterTake ==
    [][npub' # npub =>
          \A h \in DOMAIN hats :
             (h \notin DOMAIN pending /\ ShouldReceive(last'.event[1], hats[h])) =>
                 /\ h \in Range(last'.recipients)
                 /\ h \in DOMAIN pending'
                 /\ pending'[h] = <<last'.event[1]>>
                 /\ HasPending(pending')
                 /\ TakePendingResult(pending', h) = <<last'.event[1]>>]_vars

\* C39 witness: an event was published to the reviewer and taken, a second
\* event was published to it, and the second take_pending returned the
\* second event alone.
C39_Witness ==
    /\ last.op = "take_pending"
    /\ last.id = "reviewer"
    /\ Len(last.events) = 1
    /\ Len(taken["reviewer"]) = 2
    /\ taken["reviewer"][1] # taken["reviewer"][2]
    /\ taken["reviewer"][2] = last.events[1]
    /\ delivered["reviewer"] = taken["reviewer"]

\* C39 witness: the reviewer's events were taken, and a publish behind that
\* has queued an event for it by its subscription.
C39_WitnessQueued ==
    /\ last.op = "publish"
    /\ last.event[1].target = None
    /\ Len(taken["reviewer"]) = 1
    /\ "reviewer" \in Range(last.recipients)
    /\ "reviewer" \in DOMAIN pending
    /\ pending["reviewer"] = <<last.event[1]>>
    /\ HasPending(pending)

----------------------------------------------------------------------------

(* EventParser::parse, one pass of its loop at a time *)

\* &s[n..]: the text behind the first n tokens; None for the panic of a
\* range that starts behind the end
SliceFrom(s, n) == IF n > Len(s) THEN None ELSE Some(SubSeq(s, n + 1, Len(s)))

\* start_idx + 7: the tokens up to and with the `<event ` found at start_idx
SkipNothing(start_idx) == start_idx - 1

SkipOpen(start_idx) == start_idx

\* One pass of `while let Some(start_idx) = remaining.find("<event ")` with
\* the `<event ` at start_idx: the new remaining (None for a panic) and the
\* event pushed, if any
Pass(source, remaining, start_idx) ==
    LET after_start == SubSeq(remaining, start_idx, Len(remaining))
        tag_end == Find(after_start, Gt)
        opening_tag == SubSeq(after_start, 1, tag_end)
        topic == ExtractAttr(opening_tag, "topic")
        target == ExtractAttr(opening_tag, "target")
        content_start == SubSeq(after_start, tag_end + 1, Len(after_start))
        close_idx == Find(content_start, Close)
        payload == Trim(SubSeq(content_start, 1, close_idx - 1))
        total_consumed == (start_idx - 1) + tag_end + (close_idx - 1) + 1
    IN  IF tag_end = 0
        THEN [remaining |-> SliceFrom(remaining, SkipOpen(start_idx)), pushed |-> <<>>]
        ELSE IF topic = None
        THEN [remaining |-> SliceFrom(remaining, (start_idx - 1) + tag_end), pushed |-> <<>>]
        ELSE IF close_idx = 0
        THEN [remaining |-> SliceFrom(remaining, (start_idx - 1) + tag_end), pushed |-> <<>>]
        ELSE [remaining |-> SliceFrom(remaining, total_consumed),
              pushed |-> <<Event(topic[1], payload, source, target)>>]

ScanInit ==
    /\ scan_source \in {None, Some("impl")}
    /\ scan_output \in {Flatten(ps) : ps \in SeqsUpTo(Pieces, MaxPieces)}
    /\ scan_remaining = scan_output
    /\ scan_events = <<>>
    /\ scan_pc = "loop"
    /\ BusIdle
    /\ LoopIdle
    /\ MatchIdle
    /\ ParserIdle
    /\ ReaderIdle
    /\ RalphIdle

\* The loop's condition fails: parse returns events
ScanReturn ==
    /\ scan_pc = "loop"
    /\ Find(scan_remaining, Open) = 0
    /\ scan_pc' = "returned"
    /\ UNCHANGED <<scan_source, scan_output, scan_remaining, scan_events, busVars, loopVars,
                   matchVars, parserVars, readerVars, ralphVars>>

\* One pass of the loop
ScanPass ==
    /\ scan_pc = "loop"
    /\ Find(scan_remaining, Open) # 0
    /\ \E p \in {Pass(scan_source, scan_remaining, Find(scan_remaining, Open))} :
          IF p.remaining = None
          THEN /\ scan_pc' = "panicked"
               /\ UNCHANGED <<scan_remaining, scan_events>>
          ELSE /\ scan_remaining' = p.remaining[1]
               /\ scan_events' = scan_events \o p.pushed
               /\ scan_pc' = scan_pc
    /\ UNCHANGED <<scan_source, scan_output, busVars, loopVars, matchVars, parserVars,
                   readerVars, ralphVars>>

ScanNext == ScanReturn \/ ScanPass

ScanSpec == ScanInit /\ [][ScanNext]_vars

\* parse runs on its own thread of control: a pass that can be taken is taken
FairScanSpec == ScanSpec /\ WF_vars(ScanNext)

\* C36: every pass of the loop of parse leaves a remaining text shorter
\* than before and does not panic, whichever of its four branches it takes,
\* and parse comes to return, with the events the passes pushed.
C36_ParseTerminates ==
    /\ [][scan_remaining' # scan_remaining => Len(scan_remaining') < Len(scan_remaining)]_vars
    /\ [][(scan_pc = "loop" /\ scan_pc' = "loop") =>
             Len(scan_remaining') < Len(scan_remaining)]_vars
    /\ [](scan_pc # "panicked")
    /\ [](scan_pc = "returned" => scan_events = Parse(scan_source, scan_output))
    /\ <>(scan_pc = "returned")

\* C36 witness: parse has returned from an output of a tag without topic, a
\* well-formed tag and a `<event ` with nothing behind it, after three
\* passes, one through each kind of branch, with the event of the tag.
C36_Witness ==
    /\ scan_pc = "returned"
    /\ scan_output =
          (CHOOSE p \in BrokenPieces : p.kind = "no_topic").toks
          \o RenderTag(ImplDone, None, <<Chars("a")>>)
          \o <<Open>>
    /\ scan_remaining = <<>>
    /\ scan_events = <<Event(ImplDone, <<Chars("a")>>, scan_source, None)>>

----------------------------------------------------------------------------
(* HatlessRalph: the coordinator's prompt *)

\* The prompt is a sequence of tokens: the fixed lines of the format
\* strings, headings among them, and the texts put into them (white space
\* is Ws, other text Chars)
Heading(text) == Tok("heading", text)

Line(text) == Tok("line", text)

\* Number of prompts built in one run
MaxBuilds == 3

\* CoreConfig of the configuration
Core == [scratchpad |-> ".agent/scratchpad.md", specs_dir |-> "./specs/",
         guardrails |-> <<"Fresh context each iteration", "Backpressure is law">>]

\* A hat of the registry, as HatTopology::from_registry takes it over
HatInfo(name, subscribes_to, publishes, instructions) ==
    [name |-> name, subscribes_to |-> subscribes_to, publishes |-> publishes,
     instructions |-> instructions]

\* Registries: none but the coordinator; one hat without instructions; two
\* hats, one with instructions and one with blank instructions
Registries ==
    {<<>>,
     <<HatInfo("TDD Writer", <<"tdd.start">>, <<"test.written">>, <<>>)>>,
     <<HatInfo("Planner", <<"task.start">>, <<"build.task">>, <<Chars("Plan first"), Ws>>),
       HatInfo("Builder", <<"build.task">>, <<"build.done">>, <<Ws>>)>>}

\* Contexts: empty, white space only, one line, a line with white space
\* around it, two lines
Contexts ==
    {<<>>, <<Ws>>, <<Ws, Ws, Ws>>,
     <<Chars("[task.start] Implement feature X")>>,
     <<Ws, Chars("[task.start] Implement feature X"), Ws>>,
     <<Chars("[task.start] Review"), Ws, Chars("[build.done] ok")>>}

\* HatlessRalph::new: hat_topology of a registry
FromRegistry(registry) == IF registry = <<>> THEN None ELSE Some(registry)

\* HatlessRalph::is_fresh_start
IsFreshStartFirstBuild == starting_event # None /\ ~scratchpad_exists /\ built = <<>>

IsFreshStart == IF starting_event = None THEN FALSE ELSE ~scratchpad_exists

\* HatlessRalph::core_prompt
RECURSIVE Guardrails(_, _)
Guardrails(gs, i) ==
    IF i > Len(gs) THEN <<>>
    ELSE <<Tok("guardrail", <<999 + (i - 1), gs[i]>>)>> \o Guardrails(gs, i + 1)

CorePrompt ==
    <<Line("I am Ralph. Fresh context each iteration."),
      Heading("### 0a. ORIENTATION"), Line("Study"), Chars(Core.specs_dir),
      Heading("### 0b. SCRATCHPAD"), Line("Study"), Chars(Core.scratchpad),
      Line("Task markers:"),
      Heading("### GUARDRAILS")>> \o Guardrails(Core.guardrails, 1)

\* HatlessRalph::workflow_section: its three bodies
FastPathBody ==
    <<Heading("## WORKFLOW"),
      Line("**FAST PATH**: Publish"), Chars(starting_event[1]),
      Line("immediately to start the hat workflow."),
      Line("Do not plan or analyze - delegate now.")>>

DelegateBody ==
    <<Heading("## WORKFLOW"),
      Heading("### 1. PLAN"), Line("Update"), Chars(Core.scratchpad),
      Heading("### 2. DELEGATE"), Line("Publish ONE event to hand off to specialized hats."),
      Line("**CRITICAL: STOP after publishing the event.**")>>

SoloBody ==
    <<Heading("## WORKFLOW"),
      Heading("### 1. Study the prompt."),
      Heading("### 2. PLAN"), Line("Update"), Chars(Core.scratchpad),
      Heading("### 3. IMPLEMENT"),
      Heading("### 4. COMMIT"),
      Heading("### 5. REPEAT")>>

WorkflowSectionFastFirst ==
    IF IsFreshStart THEN FastPathBody
    ELSE IF hat_topology # None THEN DelegateBody
    ELSE SoloBody

WorkflowSection ==
    IF hat_topology # None
    THEN IF IsFreshStart THEN FastPathBody ELSE DelegateBody
    ELSE SoloBody

\* HatlessRalph::hats_section
RECURSIVE HatRows(_)
HatRows(hs) ==
    IF hs = <<>> THEN <<>>
    ELSE <<Tok("row", <<Head(hs).name, Head(hs).subscribes_to, Head(hs).publishes>>)>>
         \o HatRows(Tail(hs))

RECURSIVE HatInstructions(_)
HatInstructions(hs) ==
    IF hs = <<>> THEN <<>>
    ELSE (IF Trim(Head(hs).instructions) # <<>>
          THEN <<Heading("### " \o Head(hs).name \o " Instructions")>> \o Head(hs).instructions
          ELSE <<>>)
         \o HatInstructions(Tail(hs))

HatsSection(topology) ==
    <<Heading("## HATS"), Line("Delegate via events.")>>
    \o (IF starting_event # None
        THEN <<Line("**After coordination, publish"), Chars(starting_event[1]),
               Line("to start the workflow.**")>>
        ELSE <<>>)
    \o <<Line("| Hat | Triggers On | Publishes |")>>
    \o HatRows(topology)
    \o HatInstructions(topology)

\* HatlessRalph::event_writing_section
EventWritingSection ==
    <<Heading("## EVENT WRITING"), Line("Write events to"), Chars(".agent/events.jsonl"),
      Line("as:")>>

\* HatlessRalph::done_section
DoneSection ==
    <<Heading("## DONE"), Line("Output"), Chars(CompletionPromise),
      Line("when all tasks complete.")>>

\* HatlessRalph::build_prompt
HatlessRalphBuildPromptNoTrim(context) ==
    CorePrompt
    \o (IF context # <<>>
        THEN <<Heading("## PENDING EVENTS")>> \o context \o <<Ws, Ws>>
        ELSE <<>>)
    \o WorkflowSection
    \o (IF hat_topology # None THEN HatsSection(hat_topology[1]) ELSE <<>>)
    \o EventWritingSection
    \o DoneSection

HatlessRalphBuildPrompt(context) ==
    CorePrompt
    \o (IF Trim(context) # <<>>
        THEN <<Heading("## PENDING EVENTS")>> \o context \o <<Ws, Ws>>
        ELSE <<>>)
    \o WorkflowSection
    \o (IF hat_topology # None THEN HatsSection(hat_topology[1]) ELSE <<>>)
    \o EventWritingSection
    \o DoneSection

\* HatlessRalph::new, for any registry and starting event, with or without
\* a scratchpad file
RalphInit ==
    /\ hat_topology \in {FromRegistry(registry) : registry \in Registries}
    /\ starting_event \in {None, Some("tdd.start")}
    /\ scratchpad_exists \in BOOLEAN
    /\ prompt_context = <<>>
    /\ prompt = None
    /\ built = <<>>
    /\ BusIdle
    /\ LoopIdle
    /\ MatchIdle
    /\ ParserIdle
    /\ ReaderIdle
    /\ ScanIdle

\* A call of build_prompt
BuildPromptCall(context) ==
    /\ Len(built) < MaxBuilds
    /\ prompt_context' = context
    /\ prompt' = Some(HatlessRalphBuildPrompt(context))
    /\ built' = Append(built, [scratchpad_exists |-> scratchpad_exists,
                               prompt |-> HatlessRalphBuildPrompt(context)])
    /\ UNCHANGED <<hat_topology, starting_event, scratchpad_exists, busVars, loopVars,
                   matchVars, parserVars, readerVars, scanVars>>

\* The agent writes the scratchpad file
WriteScratchpad ==
    /\ ~scratchpad_exists
    /\ scratchpad_exists' = TRUE
    /\ UNCHANGED <<hat_topology, starting_event, prompt_context, prompt, built, busVars,
                   loopVars, matchVars, parserVars, readerVars, scanVars>>

\* The scratchpad file is removed
RemoveScratchpad ==
    /\ scratchpad_exists
    /\ scratchpad_exists' = FALSE
    /\ UNCHANGED <<hat_topology, starting_event, prompt_context, prompt, built, busVars,
                   loopVars, matchVars, parserVars, readerVars, scanVars>>

RalphNext ==
    \/ \E context \in Contexts : BuildPromptCall(context)
    \/ WriteScratchpad
    \/ RemoveScratchpad

RalphSpec == RalphInit /\ [][RalphNext]_vars

----------------------------------------------------------------------------
(* Claims about the coordinator's prompt *)

\* The prompt p holds the token t
Has(p, t) == \E i \in 1..Len(p) : p[i] = t

\* The places of token t in the prompt p
Places(p, t) == {i \in 1..Len(p) : p[i] = t}

\* The steps that only the solo workflow has
SoloSteps ==
    {Heading("### 1. Study the prompt."), Heading("### 2. PLAN"), Heading("### 3. IMPLEMENT"),
     Heading("### 4. COMMIT"), Heading("### 5. REPEAT")}

\* The prompt p uses the fast path
UsesFastPath(p) == Has(p, Line("**FAST PATH**: Publish"))

\* The tokens of the prompt p from its WORKFLOW heading up to the next
\* heading of a section
WorkflowOf(p) ==
    LET from == CHOOSE i \in Places(p, Heading("## WORKFLOW")) : TRUE
        ends == {j \in (from + 1)..Len(p) :
                    p[j] \in {Heading("## HATS"), Heading("## EVENT WRITING")}}
        to == CHOOSE j \in ends : \A k \in ends : j <= k
    IN  SubSeq(p, from, to - 1)

\* C34: the prompt a build_prompt call returns has one WORKFLOW heading, and
\* the body under it is the solo workflow with its five steps when there is
\* no hat but the coordinator, with or without a starting event; the
\* plan-and-delegate workflow with the STOP line when there are hats and it
\* is no fresh start; and the FAST PATH line with the starting event, and
\* no PLAN step, when there are hats, a starting event is configured and the
\* scratchpad file does not exist.
C34_WorkflowBody ==
    [][Len(built') > Len(built) =>
          LET p == prompt'[1]
              w == WorkflowOf(p)
              multi_hat == hat_topology # None
              fresh_start == starting_event # None /\ ~scratchpad_exists
          IN  /\ Cardinality(Places(p, Heading("## WORKFLOW"))) = 1
              /\ ~multi_hat =>
                    /\ \A t \in SoloSteps : Has(w, t)
                    /\ ~UsesFastPath(p)
                    /\ ~Has(p, Heading("### 1. PLAN"))
                    /\ ~Has(p, Line("**CRITICAL: STOP after publishing the event.**"))
              /\ (multi_hat /\ ~fresh_start) =>
                    /\ Has(w, Heading("### 1. PLAN"))
                    /\ Has(w, Heading("### 2. DELEGATE"))
                    /\ Has(w, Line("**CRITICAL: STOP after publishing the event.**"))
                    /\ ~UsesFastPath(p)
                    /\ \A t \in SoloSteps : ~Has(p, t)
              /\ (multi_hat /\ fresh_start) =>
                    /\ SubSeq(w, 2, 3) = <<Line("**FAST PATH**: Publish"), Chars(starting_event[1])>>
                    /\ ~Has(p, Heading("### 1. PLAN"))
                    /\ ~Has(p, Line("**CRITICAL: STOP after publishing the event.**"))
                    /\ \A t \in SoloSteps : ~Has(p, t)]_vars

\* C34 witness: test_fast_path_with_starting_event: one hat, starting event
\* tdd.start, no scratchpad file, and the prompt built for an empty context
\* has the FAST PATH line with tdd.start and no PLAN step.
C34_Witness ==
    /\ hat_topology # None
    /\ Len(hat_topology[1]) = 1
    /\ starting_event = Some("tdd.start")
    /\ Len(built) = 1
    /\ ~built[1].scratchpad_exists
    /\ prompt_context = <<>>
    /\ prompt # None
    /\ UsesFastPath(prompt[1])
    /\ Has(prompt[1], Chars("tdd.start"))
    /\ ~Has(prompt[1], Heading("### 1. PLAN"))

\* C34 witness: no hats, a starting event and no scratchpad file: the solo
\* workflow.
C34_WitnessSolo ==
    /\ hat_topology = None
    /\ starting_event # None
    /\ Len(built) = 1
    /\ ~built[1].scratchpad_exists
    /\ prompt # None
    /\ \A t \in SoloSteps : Has(prompt[1], t)

\* C34 witness: hats, a starting event and a scratchpad file: the
\* plan-and-delegate workflow.
C34_WitnessDelegate ==
    /\ hat_topology # None
    /\ starting_event # None
    /\ Len(built) = 1
    /\ built[1].scratchpad_exists
    /\ prompt # None
    /\ Has(prompt[1], Heading("### 1. PLAN"))
    /\ Has(prompt[1], Line("**CRITICAL: STOP after publishing the event.**"))

\* C35: the prompt build_prompt(context) returns has a PENDING EVENTS
\* heading iff the context holds something other than white space; the
\* heading is then followed by the context as it was given, white space
\* around it included, and stands before the WORKFLOW heading.
C35_PendingEvents ==
    prompt # None =>
        LET p == prompt[1]
            pe == Places(p, Heading("## PENDING EVENTS"))
        IN  /\ pe # {} <=> \E i \in 1..Len(prompt_context) : prompt_context[i] # Ws
            /\ Cardinality(pe) <= 1
            /\ \A i \in pe :
                  /\ SubSeq(p, i + 1, i + Len(prompt_context)) = prompt_context
                  /\ \A j \in Places(p, Heading("## WORKFLOW")) : i + Len(prompt_context) < j

\* C35 witness: a context with white space around its line is in the prompt
\* as given, under PENDING EVENTS and before WORKFLOW.
C35_Witness ==
    /\ prompt # None
    /\ prompt_context = <<Ws, Chars("[task.start] Implement feature X"), Ws>>
    /\ \E i \in Places(prompt[1], Heading("## PENDING EVENTS")) :
          /\ SubSeq(prompt[1], i + 1, i + 3) = prompt_context
          /\ prompt[1][i + 6] = Heading("## WORKFLOW")

\* C35 witness: test_whitespace_only_context_no_pending_events_section
C35_WitnessBlank ==
    /\ prompt # None
    /\ prompt_context = <<Ws, Ws, Ws>>
    /\ ~Has(prompt[1], Heading("## PENDING EVENTS"))
    /\ Has(prompt[1], Heading("## WORKFLOW"))

\* C40: every prompt built for a coordinator with hats and a starting event
\* uses the fast path iff the scratchpad file did not exist when that prompt
\* was built, the first prompt or a later one; a coordinator without hats or
\* without starting event never uses it.
C40_FreshStartEveryBuild ==
    \A i \in 1..Len(built) :
        UsesFastPath(built[i].prompt) <=>
            /\ hat_topology # None
            /\ starting_event # None
            /\ ~built[i].scratchpad_exists

\* C40 witness: the first two prompts were built without a scratchpad file
\* and both use the fast path; then the file was written, and the third
\* prompt does not use it.
C40_Witness ==
    /\ Len(built) = 3
    /\ ~built[1].scratchpad_exists /\ UsesFastPath(built[1].prompt)
    /\ ~built[2].scratchpad_exists /\ UsesFastPath(built[2].prompt)
    /\ built[3].scratchpad_exists /\ ~UsesFastPath(built[3].prompt)
    /\ scratchpad_exists
    /\ Has(built[3].prompt, Heading("### 1. PLAN"))

====
